---------------------------- MODULE Spec2Model ----------------------------
(***************************************************************************)
(* A model of timedelta_isoformat (Duration, ISO-8601 durations):          *)
(*   - Duration.fromisoformat: the designator sweep, the fixed-width date  *)
(*     and time parsers, the reducer _to_measurements;                     *)
(*   - Duration.isoformat and _format_as_integer_if_possible;              *)
(*   - Duration.__add__ on a datetime, a timedelta and a Duration;         *)
(*   - Interval.__init__ and Interval.fromisoformat, with the parser of    *)
(*     datetime.fromisoformat, and the ordering of Durations.              *)
(*                                                                         *)
(* A Python str is a sequence of characters, each a string.  A Python      *)
(* float is a binary double, held exactly as sign * n / 2^k; every         *)
(* operation on floats is rounded to the nearest double as the machine     *)
(* rounds it.  The text of a number is read as a decimal <<ip, fp>>, ip    *)
(* the integer part and fp the fractional part counted in units of         *)
(* 1/Scale, and float(text) is the double nearest to it; the texts of the  *)
(* model stay within that resolution.                                      *)
(***************************************************************************)
EXTENDS Integers, Sequences, FiniteSets, TLC

(***************************************************************************)
(* Characters.  A printable ASCII character is written as itself (the      *)
(* grave accent, which a string of a module cannot hold, as "U+0060"), any *)
(* other character as "U+" and its code point in hexadecimal on four       *)
(* digits or more: a tab is "U+0009", a capital E with an acute accent     *)
(* "U+00C9".  The classes of str.isupper() and str.isdigit(), and the      *)
(* digits and the white space float() reads, are those of the Unicode      *)
(* database of the interpreter (14.0), as ranges of code points            *)
(* <<first, last, step>>.                                                  *)
(***************************************************************************)
PrintableAscii ==
    <<" ", "!", "\"", "#", "$", "%", "&", "'", "(", ")", "*", "+", ",", "-",
      ".", "/", "0", "1", "2", "3", "4", "5", "6", "7", "8", "9", ":", ";",
      "<", "=", ">", "?", "@", "A", "B", "C", "D", "E", "F", "G", "H", "I",
      "J", "K", "L", "M", "N", "O", "P", "Q", "R", "S", "T", "U", "V", "W",
      "X", "Y", "Z", "[", "\\", "]", "^", "_", "U+0060", "a", "b", "c", "d",
      "e", "f", "g", "h", "i", "j", "k", "l", "m", "n", "o", "p", "q", "r",
      "s", "t", "u", "v", "w", "x", "y", "z", "{", "|", "}", "~">>

HexDigits == <<"0", "1", "2", "3", "4", "5", "6", "7", "8", "9", "A", "B", "C", "D", "E", "F">>

RECURSIVE Hex(_, _)
Hex(n, width) ==
    IF n = 0 /\ width <= 0 THEN "" ELSE Hex(n \div 16, width - 1) \o HexDigits[(n % 16) + 1]

\* chr(n)
Chr(n) == IF n \in 32..126 THEN PrintableAscii[n - 31] ELSE "U+" \o Hex(n, 4)

Span(r) == {r[1] + r[3] * i : i \in 0..((r[2] - r[1]) \div r[3])}

Codes(ranges) == UNION {Span(r) : r \in ranges}

Characters(ranges) == {Chr(n) : n \in Codes(ranges)}

\* the characters c with c.isupper()
UpperRanges ==
    {<<65, 90, 1>>, <<192, 214, 1>>, <<216, 222, 1>>, <<256, 310, 2>>,
     <<313, 327, 2>>, <<330, 376, 2>>, <<377, 381, 2>>, <<385, 386, 1>>,
     <<388, 390, 2>>, <<391, 393, 2>>, <<394, 395, 1>>, <<398, 401, 1>>,
     <<403, 404, 1>>, <<406, 408, 1>>, <<412, 413, 1>>, <<415, 416, 1>>,
     <<418, 422, 2>>, <<423, 425, 2>>, <<428, 430, 2>>, <<431, 433, 2>>,
     <<434, 435, 1>>, <<437, 439, 2>>, <<440, 440, 1>>, <<444, 444, 1>>,
     <<452, 452, 1>>, <<455, 455, 1>>, <<458, 458, 1>>, <<461, 475, 2>>,
     <<478, 494, 2>>, <<497, 497, 1>>, <<500, 502, 2>>, <<503, 504, 1>>,
     <<506, 562, 2>>, <<570, 571, 1>>, <<573, 574, 1>>, <<577, 579, 2>>,
     <<580, 582, 1>>, <<584, 590, 2>>, <<880, 882, 2>>, <<886, 886, 1>>,
     <<895, 895, 1>>, <<902, 904, 2>>, <<905, 906, 1>>, <<908, 910, 2>>,
     <<911, 913, 2>>, <<914, 929, 1>>, <<931, 939, 1>>, <<975, 975, 1>>,
     <<978, 980, 1>>, <<984, 1006, 2>>, <<1012, 1012, 1>>,
     <<1015, 1017, 2>>, <<1018, 1018, 1>>, <<1021, 1071, 1>>,
     <<1120, 1152, 2>>, <<1162, 1216, 2>>, <<1217, 1229, 2>>,
     <<1232, 1326, 2>>, <<1329, 1366, 1>>, <<4256, 4293, 1>>,
     <<4295, 4295, 1>>, <<4301, 4301, 1>>, <<5024, 5109, 1>>,
     <<7312, 7354, 1>>, <<7357, 7359, 1>>, <<7680, 7828, 2>>,
     <<7838, 7934, 2>>, <<7944, 7951, 1>>, <<7960, 7965, 1>>,
     <<7976, 7983, 1>>, <<7992, 7999, 1>>, <<8008, 8013, 1>>,
     <<8025, 8031, 2>>, <<8040, 8047, 1>>, <<8120, 8123, 1>>,
     <<8136, 8139, 1>>, <<8152, 8155, 1>>, <<8168, 8172, 1>>,
     <<8184, 8187, 1>>, <<8450, 8450, 1>>, <<8455, 8455, 1>>,
     <<8459, 8461, 1>>, <<8464, 8466, 1>>, <<8469, 8469, 1>>,
     <<8473, 8477, 1>>, <<8484, 8490, 2>>, <<8491, 8493, 1>>,
     <<8496, 8499, 1>>, <<8510, 8511, 1>>, <<8517, 8517, 1>>,
     <<8544, 8559, 1>>, <<8579, 8579, 1>>, <<9398, 9423, 1>>,
     <<11264, 11311, 1>>, <<11360, 11362, 2>>, <<11363, 11364, 1>>,
     <<11367, 11373, 2>>, <<11374, 11376, 1>>, <<11378, 11378, 1>>,
     <<11381, 11381, 1>>, <<11390, 11392, 1>>, <<11394, 11490, 2>>,
     <<11499, 11501, 2>>, <<11506, 11506, 1>>, <<42560, 42604, 2>>,
     <<42624, 42650, 2>>, <<42786, 42798, 2>>, <<42802, 42862, 2>>,
     <<42873, 42877, 2>>, <<42878, 42886, 2>>, <<42891, 42893, 2>>,
     <<42896, 42898, 2>>, <<42902, 42922, 2>>, <<42923, 42926, 1>>,
     <<42928, 42932, 1>>, <<42934, 42948, 2>>, <<42949, 42951, 1>>,
     <<42953, 42953, 1>>, <<42960, 42960, 1>>, <<42966, 42968, 2>>,
     <<42997, 42997, 1>>, <<65313, 65338, 1>>, <<66560, 66599, 1>>,
     <<66736, 66771, 1>>, <<66928, 66938, 1>>, <<66940, 66954, 1>>,
     <<66956, 66962, 1>>, <<66964, 66965, 1>>, <<68736, 68786, 1>>,
     <<71840, 71871, 1>>, <<93760, 93791, 1>>, <<119808, 119833, 1>>,
     <<119860, 119885, 1>>, <<119912, 119937, 1>>, <<119964, 119966, 2>>,
     <<119967, 119967, 1>>, <<119970, 119970, 1>>, <<119973, 119974, 1>>,
     <<119977, 119980, 1>>, <<119982, 119989, 1>>, <<120016, 120041, 1>>,
     <<120068, 120069, 1>>, <<120071, 120074, 1>>, <<120077, 120084, 1>>,
     <<120086, 120092, 1>>, <<120120, 120121, 1>>, <<120123, 120126, 1>>,
     <<120128, 120132, 1>>, <<120134, 120134, 1>>, <<120138, 120144, 1>>,
     <<120172, 120197, 1>>, <<120224, 120249, 1>>, <<120276, 120301, 1>>,
     <<120328, 120353, 1>>, <<120380, 120405, 1>>, <<120432, 120457, 1>>,
     <<120488, 120512, 1>>, <<120546, 120570, 1>>, <<120604, 120628, 1>>,
     <<120662, 120686, 1>>, <<120720, 120744, 1>>, <<120778, 120778, 1>>,
     <<125184, 125217, 1>>, <<127280, 127305, 1>>, <<127312, 127337, 1>>,
     <<127344, 127369, 1>>}

UpperChars == Characters(UpperRanges)

\* str.isupper() on one character
IsUpper(c) == c \in UpperChars

DigitChars == <<"0", "1", "2", "3", "4", "5", "6", "7", "8", "9">>

\* "0123456789"
Digits == {DigitChars[i] : i \in 1..10}

\* _DECIMAL_CHARACTERS
DecimalCharacters == Digits \cup {",", "."}

\* the code points of the digits zero of the scripts: the nine characters
\* after each are its digits one to nine
DecimalZeros ==
    {48, 1632, 1776, 1984, 2406, 2534, 2662, 2790, 2918, 3046, 3174, 3302,
     3430, 3558, 3664, 3792, 3872, 4160, 4240, 6112, 6160, 6470, 6608,
     6784, 6800, 6992, 7088, 7232, 7248, 42528, 43216, 43264, 43472, 43504,
     43600, 44016, 65296, 66720, 68912, 69734, 69872, 69942, 70096, 70384,
     70736, 70864, 71248, 71360, 71472, 71904, 72016, 72784, 73040, 73120,
     92768, 92864, 93008, 120782, 120792, 120802, 120812, 120822, 123200,
     123632, 125264, 130032}

\* the characters that are decimal digits, each with its value
DecimalTable == {<<Chr(zero + value), value>> : zero \in DecimalZeros, value \in 0..9}

\* the digits float() reads
DecimalDigits == {pair[1] : pair \in DecimalTable}

\* the characters that are digits and no decimal digits: superscripts,
\* subscripts, circled digits
DigitRanges ==
    {<<178, 179, 1>>, <<185, 185, 1>>, <<4969, 4977, 1>>,
     <<6618, 6618, 1>>, <<8304, 8304, 1>>, <<8308, 8313, 1>>,
     <<8320, 8329, 1>>, <<9312, 9320, 1>>, <<9332, 9340, 1>>,
     <<9352, 9360, 1>>, <<9450, 9450, 1>>, <<9461, 9469, 1>>,
     <<9471, 9471, 1>>, <<10102, 10110, 1>>, <<10112, 10120, 1>>,
     <<10122, 10130, 1>>, <<68160, 68163, 1>>, <<69216, 69224, 1>>,
     <<69714, 69722, 1>>, <<127232, 127242, 1>>}

\* str.isdigit() on one character
IsDigit(c) == c \in DecimalDigits \cup Characters(DigitRanges)

DigitVal(c) ==
    IF c \in Digits THEN (CHOOSE i \in 1..10 : DigitChars[i] = c) - 1
    ELSE (CHOOSE pair \in DecimalTable : pair[1] = c)[2]

RECURSIVE NatOf(_)
NatOf(ds) == IF ds = <<>> THEN 0
             ELSE NatOf(SubSeq(ds, 1, Len(ds) - 1)) * 10 + DigitVal(ds[Len(ds)])

RECURSIVE Zeros(_)
Zeros(n) == IF n <= 0 THEN <<>> ELSE <<"0">> \o Zeros(n - 1)

\* number of characters of "0123456789" in s starting at position i
RECURSIVE DigitRun(_, _)
DigitRun(s, i) == IF i <= Len(s) /\ s[i] \in Digits THEN 1 + DigitRun(s, i + 1) ELSE 0

\* length of the digit group of s starting at position i, as float() reads
\* it: digits, with single underscores allowed between two digits
RECURSIVE DigitGroup(_, _)
DigitGroup(s, i) ==
    IF ~(i <= Len(s) /\ s[i] \in DecimalDigits) THEN 0
    ELSE IF i + 2 <= Len(s) /\ s[i + 1] = "_" /\ s[i + 2] \in DecimalDigits THEN 2 + DigitGroup(s, i + 2)
    ELSE 1 + DigitGroup(s, i + 1)

\* the digits of a digit group
IsDecimal(c) == c \in DecimalDigits

Plain(group) == SelectSeq(group, IsDecimal)

\* the white space float() strips
SpaceRanges ==
    {<<9, 13, 1>>, <<32, 32, 1>>, <<133, 133, 1>>, <<160, 160, 1>>,
     <<5760, 5760, 1>>, <<8192, 8202, 1>>, <<8232, 8233, 1>>,
     <<8239, 8239, 1>>, <<8287, 8287, 1>>, <<12288, 12288, 1>>}

Whitespace == Characters(SpaceRanges)

\* str.rstrip() of white space
RECURSIVE RStripSpace(_)
RStripSpace(s) ==
    IF s # <<>> /\ s[Len(s)] \in Whitespace THEN RStripSpace(SubSeq(s, 1, Len(s) - 1)) ELSE s

\* str.replace(",", ".")
ReplaceCommas(s) == [i \in 1..Len(s) |-> IF s[i] = "," THEN "." ELSE s[i]]

\* str.rstrip(c)
RECURSIVE RStrip(_, _)
RStrip(s, c) == IF s # <<>> /\ s[Len(s)] = c THEN RStrip(SubSeq(s, 1, Len(s) - 1), c) ELSE s

\* decimal digits of a natural number, as str(n)
RECURSIVE NatStr(_)
NatStr(n) == IF n < 10 THEN <<DigitChars[n + 1]>>
             ELSE NatStr(n \div 10) \o <<DigitChars[(n % 10) + 1]>>

(***************************************************************************)
(* float("+" + value.replace(",", ".")) for a value whose first character  *)
(* is a digit: digits and a fraction "." digits, one of the two at least,  *)
(* then [ (e|E) [+|-] digits ], white space after it stripped, each digits *)
(* a group with single underscores between digits.  The number read is a   *)
(* decimal <<ip, fp>>, fp in units of 1/Scale.                             *)
(***************************************************************************)
\* resolution of the decimal read from a text: 1/Scale
FracDigits == 7

Scale == 10 ^ FracDigits

\* the exponent part, from position e0 (the character after the fraction)
Exponent(s, e0) ==
    IF ~(e0 <= Len(s) /\ s[e0] \in {"e", "E"})
    THEN [ok |-> e0 = Len(s) + 1, exp |-> 0]
    ELSE LET sg == e0 + 1 <= Len(s) /\ s[e0 + 1] \in {"+", "-"}
             x0 == IF sg THEN e0 + 2 ELSE e0 + 1
             n3 == DigitGroup(s, x0)
         IN  [ok  |-> n3 >= 1 /\ x0 + n3 = Len(s) + 1,
              exp |-> IF sg /\ s[e0 + 1] = "-" THEN 0 - NatOf(Plain(SubSeq(s, x0, x0 + n3 - 1)))
                      ELSE NatOf(Plain(SubSeq(s, x0, x0 + n3 - 1)))]

\* the fraction part, from position p (the character after the integer digits)
Fraction(s, p) ==
    IF p <= Len(s) /\ s[p] = "."
    THEN [frac |-> Plain(SubSeq(s, p + 1, p + DigitGroup(s, p + 1))),
          next |-> p + 1 + DigitGroup(s, p + 1)]
    ELSE [frac |-> <<>>, next |-> p]

Syntax(int, fr, ex) == [ok |-> Len(int) + Len(fr.frac) >= 1 /\ ex.ok, int |-> int, frac |-> fr.frac, exp |-> ex.exp]

SyntaxFrom(s, int, fr) == Syntax(int, fr, Exponent(s, fr.next))

SyntaxOf(s, n1) == SyntaxFrom(s, Plain(SubSeq(s, 1, n1)), Fraction(s, n1 + 1))

Stripped(v) == RStripSpace(ReplaceCommas(v))

FloatSyntax(v) == SyntaxOf(Stripped(v), DigitGroup(Stripped(v), 1))

\* the digits all with the decimal point after the first `point` of them
Shifted(all, point) ==
    IF point <= 0 THEN <<0, NatOf(SubSeq(Zeros(0 - point) \o all \o Zeros(FracDigits), 1, FracDigits))>>
    ELSE IF point >= Len(all) THEN <<NatOf(all \o Zeros(point - Len(all))), 0>>
    ELSE <<NatOf(SubSeq(all, 1, point)),
           NatOf(SubSeq(SubSeq(all, point + 1, Len(all)) \o Zeros(FracDigits), 1, FracDigits))>>

ValueOf(sx) == Shifted(sx.int \o sx.frac, Len(sx.int) + sx.exp)

\* the decimal that float() reads in value
DecimalRead(v) == ValueOf(FloatSyntax(v))

(***************************************************************************)
(* Binary floating point.  A Python float is a double: 53 significant      *)
(* binary digits, every operation rounded to the nearest double, ties to   *)
(* the even one.  A double is held as sign * n / 2^k, n a natural number   *)
(* written in hexadecimal digits, least significant first, and k the       *)
(* least number of binary digits after the point that holds it, so that    *)
(* equal doubles are equal records.  Zero has one sign: float() is given   *)
(* a text that begins with "+", and no sum of the model is a negative      *)
(* zero, which only a Duration built from -0.0 holds.                      *)
(***************************************************************************)
MantissaDigits == 53

RECURSIVE Big(_)
Big(n) == IF n = 0 THEN <<>> ELSE <<n % 16>> \o Big(n \div 16)

\* a small number from its digits
RECURSIVE Small(_)
Small(b) == IF b = <<>> THEN 0 ELSE b[1] + 16 * Small(Tail(b))

\* the place of the highest digit of b that is not zero, at or below i
RECURSIVE TopDigit(_, _)
TopDigit(b, i) == IF i > 0 /\ b[i] = 0 THEN TopDigit(b, i - 1) ELSE i

\* without the zeros at the top
Trim(b) == SubSeq(b, 1, TopDigit(b, Len(b)))

Low(b) == IF b = <<>> THEN 0 ELSE b[1]

Rest(b) == IF b = <<>> THEN <<>> ELSE Tail(b)

\* a + b + carry
RECURSIVE BigAdd(_, _, _)
BigAdd(a, b, carry) ==
    IF a = <<>> /\ b = <<>> THEN Big(carry)
    ELSE <<(Low(a) + Low(b) + carry) % 16>>
             \o BigAdd(Rest(a), Rest(b), (Low(a) + Low(b) + carry) \div 16)

\* a - b - borrow, for a >= b + borrow
RECURSIVE BigSub(_, _, _)
BigSub(a, b, borrow) ==
    IF a = <<>> THEN <<>>
    ELSE <<(Low(a) - Low(b) - borrow) % 16>>
             \o BigSub(Rest(a), Rest(b), IF Low(a) - Low(b) - borrow < 0 THEN 1 ELSE 0)

\* a < b, both without zeros at the top
RECURSIVE BigLess(_, _)
BigLess(a, b) ==
    IF Len(a) # Len(b) THEN Len(a) < Len(b)
    ELSE IF a = <<>> THEN FALSE
    ELSE IF a[Len(a)] # b[Len(b)] THEN a[Len(a)] < b[Len(b)]
    ELSE BigLess(SubSeq(a, 1, Len(a) - 1), SubSeq(b, 1, Len(b) - 1))

\* b * c + carry, for a small c
RECURSIVE BigTimes(_, _, _)
BigTimes(b, c, carry) ==
    IF b = <<>> THEN Big(carry)
    ELSE <<(b[1] * c + carry) % 16>> \o BigTimes(Tail(b), c, (b[1] * c + carry) \div 16)

\* <<b // c, b % c>>, for a small c and a small quotient
DivModStep(upper, digit, c) ==
    <<16 * upper[1] + (16 * upper[2] + digit) \div c, (16 * upper[2] + digit) % c>>

RECURSIVE BigDivMod(_, _)
BigDivMod(b, c) ==
    IF b = <<>> THEN <<0, 0>> ELSE DivModStep(BigDivMod(Tail(b), c), b[1], c)

\* b % c, for a small c
RECURSIVE BigRem(_, _)
BigRem(b, c) == IF b = <<>> THEN 0 ELSE (16 * BigRem(Tail(b), c) + b[1]) % c

\* b // c, for a small c
BigQuot(b, c) ==
    Trim([i \in 1..Len(b) |-> (16 * BigRem(SubSeq(b, i + 1, Len(b)), c) + b[i]) \div c])

\* the number of binary digits of b, b without zeros at the top
BitLength(b) ==
    IF b = <<>> THEN 0
    ELSE 4 * (Len(b) - 1)
             + (IF b[Len(b)] >= 8 THEN 4 ELSE IF b[Len(b)] >= 4 THEN 3 ELSE IF b[Len(b)] >= 2 THEN 2 ELSE 1)

DigitAt(b, i) == IF i <= Len(b) THEN b[i] ELSE 0

\* binary digit i of b, the lowest being digit 1
BitAt(b, i) == (DigitAt(b, ((i - 1) \div 4) + 1) \div (2 ^ ((i - 1) % 4))) % 2

\* b * 2^s
ShiftLeft(b, s) == [i \in 1..(s \div 4) |-> 0] \o BigTimes(b, 2 ^ (s % 4), 0)

\* c // 2^t for t < 4
ShiftWithin(c, t) ==
    [i \in 1..Len(c) |-> (c[i] \div (2 ^ t)) + (DigitAt(c, i + 1) % (2 ^ t)) * (2 ^ (4 - t))]

\* b // 2^s
ShiftRight(b, s) == Trim(ShiftWithin(SubSeq(b, (s \div 4) + 1, Len(b)), s % 4))

\* b % 2^s
LowBits(b, s) ==
    IF s \div 4 >= Len(b) THEN b
    ELSE Trim(SubSeq(b, 1, s \div 4) \o <<b[(s \div 4) + 1] % (2 ^ (s % 4))>>)

\* the zeros at the low end of the binary digits of b, b not zero
RECURSIVE TrailingZeros(_)
TrailingZeros(b) ==
    IF b[1] = 0 THEN 4 + TrailingZeros(Tail(b))
    ELSE IF b[1] % 2 = 1 THEN 0 ELSE IF b[1] % 4 = 2 THEN 1 ELSE IF b[1] % 8 = 4 THEN 2 ELSE 3

\* sign * n / 2^k
Dyadic(sign, n, k) == [sign |-> sign, n |-> n, k |-> k]

\* 0.0
Zero == Dyadic(1, <<>>, 0)

Least(a, b) == IF a < b THEN a ELSE b

\* sign * n / 2^k without its z lowest binary digits, all zero
Lowered(sign, n, k, z) == Dyadic(sign, ShiftRight(n, z), k - z)

\* sign * n / 2^k with the least k that is not negative, n without zeros
\* at the top
Lowest(sign, n, k) ==
    IF n = <<>> THEN Zero
    ELSE IF k < 0 THEN Dyadic(sign, ShiftLeft(n, 0 - k), 0)
    ELSE Lowered(sign, n, k, Least(k, TrailingZeros(n)))

\* the same number with the least k that is not negative
Canonical(d) == Lowest(d.sign, Trim(d.n), d.k)

\* n loses its s lowest binary digits, and what else was cut off (sticky):
\* the result goes up when more than a half is lost, or a half and it is odd
RoundsUp(n, s, sticky) ==
    BitAt(n, s) = 1 /\ (BitAt(n, s + 1) = 1 \/ LowBits(n, s - 1) # <<>> \/ sticky)

NearestEven(n, s, sticky) ==
    IF RoundsUp(n, s, sticky) THEN BigAdd(ShiftRight(n, s), <<>>, 1) ELSE ShiftRight(n, s)

\* the binary digits a double cannot hold
Excess(n) == BitLength(Trim(n)) - MantissaDigits

\* d without the excess binary digits of n
Shortened(d, excess) ==
    IF excess <= 0 THEN d
    ELSE Dyadic(d.sign, NearestEven(Trim(d.n), excess, FALSE), d.k - excess)

\* the double nearest to d
Rounded(d) == Canonical(Shortened(d, Excess(d.n)))

\* the doublings that take r / Scale to 1/2 or more
RECURSIVE Doublings(_)
Doublings(r) == IF 2 * r >= Scale THEN 1 ELSE 1 + Doublings(2 * r)

\* the hexadecimal digits after the point that hold all the binary digits
\* of the double of the decimal q, and one binary digit more
FractionDigits(q) ==
    IF q[1] > 0 THEN ((MantissaDigits - BitLength(Big(q[1]))) \div 4) + 1
    ELSE ((MantissaDigits - 1 + Doublings(q[2])) \div 4) + 1

\* floor(r * 16^h / Scale) on h digits
RECURSIVE FractionHex(_, _)
FractionHex(r, h) ==
    IF h = 0 THEN <<>> ELSE FractionHex((16 * r) % Scale, h - 1) \o <<(16 * r) \div Scale>>

\* (r * 16^h) % Scale
RECURSIVE Carried(_, _)
Carried(r, h) == IF h = 0 THEN r ELSE Carried((16 * r) % Scale, h - 1)

\* the decimal q cut after h hexadecimal digits
Truncated(q, h) == Trim(FractionHex(q[2], h) \o Big(q[1]))

NearestDouble(q, h) ==
    Dyadic(1, NearestEven(Truncated(q, h), Excess(Truncated(q, h)), Carried(q[2], h) # 0),
           4 * h - Excess(Truncated(q, h)))

\* float of the decimal q
DoubleOf(q) ==
    IF q[2] = 0 THEN Dyadic(1, Big(q[1]), 0)
    ELSE Canonical(NearestDouble(q, FractionDigits(q)))

\* a + b of two doubles
Aligned(d, k) == ShiftLeft(d.n, k - d.k)

Wider(a, b) == IF a.k > b.k THEN a.k ELSE b.k

ExactSum(a, b, k) ==
    IF a.sign = b.sign THEN Dyadic(a.sign, BigAdd(Aligned(a, k), Aligned(b, k), 0), k)
    ELSE IF BigLess(Trim(Aligned(a, k)), Trim(Aligned(b, k)))
    THEN Dyadic(b.sign, BigSub(Aligned(b, k), Aligned(a, k), 0), k)
    ELSE Dyadic(a.sign, BigSub(Aligned(a, k), Aligned(b, k), 0), k)

DoubleSum(a, b) == Rounded(ExactSum(a, b, Wider(a, b)))

\* c * d for a small whole c
DoubleTimes(c, d) == Rounded(Dyadic(d.sign, BigTimes(d.n, c, 0), d.k))

\* modf: the whole part, a small integer, and the fraction
WholePart(d) == d.sign * Small(ShiftRight(d.n, d.k))

FractionPart(d) == Dyadic(d.sign, LowBits(d.n, d.k), d.k)

\* a fraction against one half: 1 above, 0 at, -1 below
AgainstHalf(frac) ==
    IF frac.k = 0 \/ BitAt(frac.n, frac.k) = 0 THEN 0 - 1
    ELSE IF LowBits(frac.n, frac.k - 1) # <<>> THEN 1
    ELSE 0

(***************************************************************************)
(* Floats: MeasuredValue                                                   *)
(***************************************************************************)
\* float("+" + value.replace(",", "."))
FloatValue(v) == DoubleOf(DecimalRead(v))

IsZero(x) == x = Zero

\* float(n) of an int
QInt(n) == IF n < 0 THEN Dyadic(0 - 1, Big(0 - n), 0) ELSE Dyadic(1, Big(n), 0)

\* -x
Negated(x) == IF x = Zero THEN Zero ELSE Dyadic(0 - x.sign, x.n, x.k)

\* a + b
QAdd(a, b) == DoubleSum(a, b)

\* a - b, not rounded
Difference(a, b) == ExactSum(a, Negated(b), Wider(a, b))

\* a < b
QLess(a, b) == Difference(a, b).sign < 0 /\ Trim(Difference(a, b).n) # <<>>

\* float % 1 != 0
IsFractional(x) == x.k > 0

\* the whole part goes one up: the fraction is more than a half, or a half
\* and the whole part is odd
UpFromHalf(x) ==
    AgainstHalf(FractionPart(x)) = 1
        \/ (AgainstHalf(FractionPart(x)) = 0 /\ BitAt(x.n, x.k + 1) = 1)

\* round(float): to the nearest integer, ties to the even one
Round(x) == IF UpFromHalf(x) THEN WholePart(x) + x.sign ELSE WholePart(x)

(***************************************************************************)
(* _format_as_integer_if_possible: f"{number:.6f}".rstrip("0").rstrip(".") *)
(***************************************************************************)
FormatPrecision == 6

\* |number| * 10^6 to the nearest whole number, ties to the even one
Millionths(number) ==
    IF number.k = 0 THEN BigTimes(number.n, 10 ^ FormatPrecision, 0)
    ELSE NearestEven(BigTimes(number.n, 10 ^ FormatPrecision, 0), number.k, FALSE)

Padded(ms) == Zeros(FormatPrecision - Len(ms)) \o ms

\* the whole part, a small number, and the six decimals
Printed(ms) ==
    NatStr(Small(BigQuot(ms, 10 ^ FormatPrecision))) \o <<".">>
        \o Padded(NatStr(BigRem(ms, 10 ^ FormatPrecision)))

\* f"{number:.6f}"
FixedPoint(number) ==
    (IF number.sign < 0 THEN <<"-">> ELSE <<>>)
        \o Printed(Millionths(number))

format_as_integer_if_possible(number) == RStrip(RStrip(FixedPoint(number), "0"), ".")

(***************************************************************************)
(* Units and the Duration value                                            *)
(***************************************************************************)
\* Duration.__init__: the seven fields, in declaration order
Units == <<"years", "months", "weeks", "days", "hours", "minutes", "seconds">>

UnitSet == {Units[i] : i \in 1..7}

\* Duration(**kwargs): every field not given defaults to 0.0
Duration(kwargs) == [u \in UnitSet |-> IF u \in DOMAIN kwargs THEN kwargs[u] ELSE Zero]

NoKwargs == [u \in {} |-> Zero]

\* Duration.__bool__
Truthy(d) == \E u \in UnitSet : ~IsZero(d[u])

\* Duration.__eq__
DurationEq(a, b) == \A u \in UnitSet : a[u] = b[u]

(***************************************************************************)
(* Exceptions.  exc is the Python exception type, kind the message         *)
(* template, and value/unit/limit/closed what the template is filled with. *)
(***************************************************************************)
Raise(exc, kind, value, unit, limit, closed) ==
    [exc |-> exc, kind |-> kind, value |-> value, unit |-> unit,
     limit |-> limit, closed |-> closed]

NoError == Raise("none", "", <<>>, "", 0, FALSE)

\* "durations must begin with the character 'P'"
ErrPrefix == Raise("AssertionError", "durations must begin with the character 'P'", <<>>, "", 0, FALSE)

\* "no measurements found"
ErrNoMeasurements == Raise("AssertionError", "no measurements found", <<>>, "", 0, FALSE)

\* f"expected a unit designator after '{value}'"
ErrExpectedDesignator(value) == Raise("AssertionError", "expected a unit designator after", value, "", 0, FALSE)

\* f"unexpected character '{char}'"
ErrUnexpected(char) == Raise("ValueError", "unexpected character", <<char>>, "", 0, FALSE)

\* f"unable to parse '{value}' as a positive decimal"
ErrNotDecimal(value) == Raise("ValueError", "unable to parse as a positive decimal", value, "", 0, FALSE)

\* f"{unit} value of {value} exceeds range {bounds}", bounds "[0..limit]" or "[0..limit)"
ErrRange(unit, value, limit, inclusive) == Raise("ValueError", "exceeds range", value, unit, limit, inclusive)

\* f"unable to parse '{segment}' into date components"
ErrDateShape(segment) == Raise("ValueError", "unable to parse into date components", segment, "", 0, FALSE)

\* f"unable to parse '{segment}' into time components"
ErrTimeShape(segment) == Raise("ValueError", "unable to parse into time components", segment, "", 0, FALSE)

(***************************************************************************)
(* _to_measurements, for one component (value, unit, limit).  limit 0      *)
(* stands for None.  The result is the error raised (NoError if none) and  *)
(* the measurements yielded before it.                                     *)
(***************************************************************************)
\* the exception raised inside the try block, before it is converted
InnerException(value) ==
    IF value = <<>> THEN "IndexError"
    ELSE IF ~IsDigit(value[1]) THEN "AssertionError"
    ELSE IF ~FloatSyntax(value).ok THEN "ValueError"
    ELSE "none"

ReducerCatches == {"AssertionError", "IndexError", "ValueError"}

\* quantity > limit if inclusive_limit else quantity >= limit

Exceeds_exclusive(quantity, limit, inclusive_limit) == ~QLess(quantity, QInt(limit))

Exceeds(quantity, limit, inclusive_limit) ==
    IF inclusive_limit THEN QLess(QInt(limit), quantity) ELSE ~QLess(quantity, QInt(limit))

ToMeasurement(comp, inclusive_limit) ==
    LET inner == InnerException(comp.value)
    IN  IF inner # "none"
        THEN [err   |-> IF inner \in ReducerCatches THEN ErrNotDecimal(comp.value)
                        ELSE Raise(inner, "", comp.value, "", 0, FALSE),
              yield |-> <<>>]
        ELSE LET quantity == FloatValue(comp.value)
             IN  [err   |-> IF comp.limit # 0 /\ Exceeds(quantity, comp.limit, inclusive_limit)
                            THEN ErrRange(comp.unit, comp.value, comp.limit, inclusive_limit)
                            ELSE NoError,
                  yield |-> IF ~IsZero(quantity) THEN <<<<comp.unit, quantity>>>> ELSE <<>>]

\* dict(...) consuming the measurements: a later pair overrides an earlier one
Update(kwargs, pairs) ==
    [u \in DOMAIN kwargs \cup {pairs[i][1] : i \in 1..Len(pairs)} |->
        IF \E i \in 1..Len(pairs) : pairs[i][1] = u
        THEN pairs[CHOOSE i \in 1..Len(pairs) :
                      pairs[i][1] = u /\ \A j \in (i + 1)..Len(pairs) : pairs[j][1] # u][2]
        ELSE kwargs[u]]

Component(value, unit, limit) == [value |-> value, unit |-> unit, limit |-> limit]

\* the state of the chain of generators feeding dict(): the measurements
\* collected so far, the components yielded so far, the error raised
Chain(kwargs, comps, err) == [kwargs |-> kwargs, comps |-> comps, err |-> err]

\* _to_measurements over a sequence of components, stopping at the first error
RECURSIVE Reduce(_, _, _)
Reduce(chain, comps, inclusive_limit) ==
    IF comps = <<>> \/ chain.err # NoError THEN chain
    ELSE LET m == ToMeasurement(Head(comps), inclusive_limit)
         IN  Reduce(Chain(Update(chain.kwargs, m.yield), Append(chain.comps, Head(comps)), m.err),
                    Tail(comps), inclusive_limit)

(***************************************************************************)
(* _from_designators: the sweep.  A context is the dict in insertion       *)
(* order; popitem() removes its last item.                                 *)
(***************************************************************************)
date_context == <<<<"D", "days">>, <<"W", "weeks">>, <<"M", "months">>, <<"Y", "years">>>>

time_context_reversed == <<<<"H", "hours">>, <<"M", "minutes">>, <<"S", "seconds">>>>

time_context == <<<<"S", "seconds">>, <<"M", "minutes">>, <<"H", "hours">>>>

\* the sweep's local variables, with the chain of generators it feeds
SweepInit ==
    [in_time |-> FALSE, date |-> date_context, time |-> time_context,
     value |-> <<>>, values_found |-> FALSE, chain |-> Chain(NoKwargs, <<>>, NoError)]

\* the position in ctx of designator char (0 if absent): the item at which
\* the popitem() loop stops
PopUntil(ctx, char) ==
    IF \E i \in 1..Len(ctx) : ctx[i][1] = char
    THEN CHOOSE i \in 1..Len(ctx) : ctx[i][1] = char
    ELSE 0

Failed(st, err) == [st EXCEPT !.chain.err = err]

\* one iteration of "for char in duration", with the consumer's handling of
\* the component it yields
SweepStep(st, char) ==
    IF char \in DecimalCharacters
    THEN [st EXCEPT !.value = Append(st.value, char)]
    ELSE IF char = "T" /\ ~st.in_time
    THEN IF st.value # <<>> THEN Failed(st, ErrExpectedDesignator(st.value))
         ELSE [st EXCEPT !.in_time = TRUE]
    ELSE LET ctx  == IF st.in_time THEN st.time ELSE st.date
             at   == PopUntil(ctx, char)
             rest == SubSeq(ctx, 1, at - 1)
             popped == IF st.in_time THEN [st EXCEPT !.time = rest] ELSE [st EXCEPT !.date = rest]
         IN  IF at = 0 THEN Failed(popped, ErrUnexpected(char))
             ELSE LET comp == Component(st.value, ctx[at][2], 0)
                      m    == ToMeasurement(comp, TRUE)
                      c    == Chain(Update(st.chain.kwargs, m.yield),
                                    Append(st.chain.comps, comp), m.err)
                  IN  IF m.err # NoError THEN [popped EXCEPT !.chain = c]
                      ELSE [popped EXCEPT !.value = <<>>, !.values_found = TRUE, !.chain = c]

\* after the loop: assert values_found, "no measurements found"
SweepEnd(st) == IF st.values_found THEN st ELSE Failed(st, ErrNoMeasurements)

RECURSIVE Sweep(_, _)
Sweep(st, duration) ==
    IF st.chain.err # NoError THEN st
    ELSE IF duration = <<>> THEN SweepEnd(st)
    ELSE Sweep(SweepStep(st, Head(duration)), Tail(duration))

from_designators(duration) == Sweep(SweepInit, duration).chain

(***************************************************************************)
(* _from_date and _from_time: the fixed-width shapes.  Slice(s, a, b) is   *)
(* s[a:b] of Python (0-based, b exclusive, cut at the end of s).           *)
(***************************************************************************)
Slice(s, a, b) == SubSeq(s, a + 1, IF b < Len(s) THEN b ELSE Len(s))

Shaped(comps) == [err |-> NoError, comps |-> comps]

from_date(segment) ==
    LET n == Len(segment)
    IN  IF n = 8 /\ segment[5] = "-"
        THEN Shaped(<<Component(Slice(segment, 0, 4), "years", 0),
                      Component(Slice(segment, 5, 8), "days", 366)>>)
        ELSE IF n = 10 /\ segment[5] = "-" /\ segment[8] = "-"
        THEN Shaped(<<Component(Slice(segment, 0, 4), "years", 0),
                      Component(Slice(segment, 5, 7), "months", 12),
                      Component(Slice(segment, 8, 10), "days", 31)>>)
        ELSE IF n = 7
        THEN Shaped(<<Component(Slice(segment, 0, 4), "years", 0),
                      Component(Slice(segment, 4, 7), "days", 366)>>)
        ELSE IF n = 8
        THEN Shaped(<<Component(Slice(segment, 0, 4), "years", 0),
                      Component(Slice(segment, 4, 6), "months", 12),
                      Component(Slice(segment, 6, 8), "days", 31)>>)
        ELSE [err |-> ErrDateShape(segment), comps |-> <<>>]

from_time(segment) ==
    LET n == Len(segment)
    IN  IF n >= 9 /\ segment[3] = ":" /\ segment[6] = ":" /\ segment[9] = "."
        THEN Shaped(<<Component(Slice(segment, 0, 2), "hours", 24),
                      Component(Slice(segment, 3, 5), "minutes", 60),
                      Component(Slice(segment, 6, 15), "seconds", 60)>>)
        ELSE IF n = 8 /\ segment[3] = ":" /\ segment[6] = ":"
        THEN Shaped(<<Component(Slice(segment, 0, 2), "hours", 24),
                      Component(Slice(segment, 3, 5), "minutes", 60),
                      Component(Slice(segment, 6, 8), "seconds", 60)>>)
        ELSE IF n >= 7 /\ segment[7] = "."
        THEN Shaped(<<Component(Slice(segment, 0, 2), "hours", 24),
                      Component(Slice(segment, 2, 4), "minutes", 60),
                      Component(Slice(segment, 4, 13), "seconds", 60)>>)
        ELSE IF n = 6
        THEN Shaped(<<Component(Slice(segment, 0, 2), "hours", 24),
                      Component(Slice(segment, 2, 4), "minutes", 60),
                      Component(Slice(segment, 4, 6), "seconds", 60)>>)
        ELSE [err |-> ErrTimeShape(segment), comps |-> <<>>]

\* str.partition("T"): the position of the first "T", Len + 1 if there is none
FirstT(s) == IF \E i \in 1..Len(s) : s[i] = "T"
             THEN CHOOSE i \in 1..Len(s) : s[i] = "T" /\ \A j \in 1..(i - 1) : s[j] # "T"
             ELSE Len(s) + 1

\* one fixed-width segment through its parser and the reducer
Segment(chain, shaped, inclusive_limit) ==
    IF chain.err # NoError THEN chain
    ELSE IF shaped.err # NoError THEN [chain EXCEPT !.err = shaped.err]
    ELSE Reduce(chain, shaped.comps, inclusive_limit)

\* the fixed-width branch of _from_duration
from_fixed(rest) ==
    LET t == FirstT(rest)
        date_segment == SubSeq(rest, 1, t - 1)
        time_segment == SubSeq(rest, t + 1, Len(rest))
        c0 == Chain(NoKwargs, <<>>, NoError)
        c1 == IF date_segment # <<>> THEN Segment(c0, from_date(date_segment), TRUE) ELSE c0
    IN  IF time_segment # <<>> THEN Segment(c1, from_time(time_segment), FALSE) ELSE c1

\* _from_duration, consumed by dict()
IsDesignatorForm(duration) == duration # <<>> /\ IsUpper(duration[Len(duration)])

\* duration.startswith("P")
StartsWithP(duration) == duration # <<>> /\ duration[1] = "P"

from_duration(duration) ==
    IF ~StartsWithP(duration) THEN Chain(NoKwargs, <<>>, ErrPrefix)
    ELSE IF IsDesignatorForm(duration) THEN from_designators(Tail(duration))
    ELSE from_fixed(Tail(duration))

(***************************************************************************)
(* Duration.fromisoformat                                                  *)
(***************************************************************************)
\* except (AssertionError, ValueError)
ParserCatches_value_only == {"ValueError"}

ParserCatches == {"AssertionError", "ValueError"}

\* What a call returns or raises.  raised is the exception type that leaves
\* the call ("none": it returned value); input and reason are the two parts
\* of the message "could not parse  duration '{duration}': {exc}".
Outcome(chain, duration) ==
    IF chain.err = NoError
    THEN [raised |-> "none", value |-> Duration(chain.kwargs), input |-> <<>>,
          reason |-> NoError, comps |-> chain.comps]
    ELSE IF chain.err.exc \in ParserCatches
    THEN [raised |-> "ValueError", value |-> Duration(NoKwargs), input |-> duration,
          reason |-> chain.err, comps |-> chain.comps]
    ELSE [raised |-> chain.err.exc, value |-> Duration(NoKwargs), input |-> <<>>,
          reason |-> chain.err, comps |-> chain.comps]

fromisoformat(duration) == Outcome(from_duration(duration), duration)

(***************************************************************************)
(* Duration.isoformat                                                      *)
(***************************************************************************)
Field_unconditional(d, unit, designator) ==
    format_as_integer_if_possible(d[unit]) \o <<designator>>

Field(d, unit, designator) ==
    IF ~IsZero(d[unit]) THEN format_as_integer_if_possible(d[unit]) \o <<designator>> ELSE <<>>

isoformat(d) ==
    IF ~Truthy(d) THEN <<"P", "0", "D">>
    ELSE <<"P">> \o Field(d, "years", "Y") \o Field(d, "months", "M")
                 \o Field(d, "weeks", "W") \o Field(d, "days", "D")
                 \o (IF ~IsZero(d["hours"]) \/ ~IsZero(d["minutes"]) \/ ~IsZero(d["seconds"])
                     THEN <<"T">> \o Field(d, "hours", "H") \o Field(d, "minutes", "M")
                                  \o Field(d, "seconds", "S")
                     ELSE <<>>)

(***************************************************************************)
(* datetime: the proleptic Gregorian calendar                              *)
(***************************************************************************)
IsLeap(y) == y % 4 = 0 /\ (y % 100 # 0 \/ y % 400 = 0)

DaysInMonth(y, m) ==
    IF m = 2 THEN (IF IsLeap(y) THEN 29 ELSE 28)
    ELSE IF m \in {4, 6, 9, 11} THEN 30 ELSE 31

DaysInYear(y) == IF IsLeap(y) THEN 366 ELSE 365

\* the days before January 1st of year y
DaysBeforeYear(y) == (y - 1) * 365 + (y - 1) \div 4 - (y - 1) \div 100 + (y - 1) \div 400

RECURSIVE DaysBeforeMonth(_, _)
DaysBeforeMonth(y, m) == IF m = 1 THEN 0 ELSE DaysBeforeMonth(y, m - 1) + DaysInMonth(y, m - 1)

\* date.toordinal(): January 1st of year 1 is day 1
ToOrdinal(y, m, d) == DaysBeforeYear(y) + DaysBeforeMonth(y, m) + d

\* the year holding ordinal n, counted from the estimate y
RECURSIVE YearOf(_, _)
YearOf(n, y) ==
    IF n <= DaysBeforeYear(y) THEN YearOf(n, y - 1)
    ELSE IF n > DaysBeforeYear(y + 1) THEN YearOf(n, y + 1)
    ELSE y

MonthOf(y, k) == CHOOSE m \in 1..12 : DaysBeforeMonth(y, m) < k /\ k <= DaysBeforeMonth(y, m) + DaysInMonth(y, m)

YearMonthDay(n, y) == <<y, MonthOf(y, n - DaysBeforeYear(y)),
                         n - DaysBeforeYear(y) - DaysBeforeMonth(y, MonthOf(y, n - DaysBeforeYear(y)))>>

\* date.fromordinal()
FromOrdinal(n) == YearMonthDay(n, YearOf(n, (n \div 366) + 1))

MINYEAR == 1

MAXYEAR == 9999

(***************************************************************************)
(* A datetime: year, month, day, the second of the day, the microsecond,   *)
(* and the tzinfo: zone "naive"; a pytz zone with the UTC offset (in       *)
(* seconds) of this tzinfo instance; or "UTC" or "timezone", a             *)
(* datetime.timezone with its offset in seconds (off) and microseconds     *)
(* (offus).                                                                *)
(***************************************************************************)
DateTime(y, m, d, sec, us, zone, off) ==
    [y |-> y, m |-> m, d |-> d, sec |-> sec, us |-> us, zone |-> zone, off |-> off, offus |-> 0]

\* a timedelta, normalised: days, seconds in 0..86399, microseconds in 0..999999
TimeDelta(days, seconds, microseconds) == [days |-> days, seconds |-> seconds, microseconds |-> microseconds]

SecondsPerDay == 86400

Million == 1000000

\* floor division and modulus as Python's // and %, for a positive divisor
FloorDiv(a, b) == IF a >= 0 THEN a \div b ELSE 0 - ((b - 1 - a) \div b)

Normalised(days, seconds, us) ==
    TimeDelta(days + FloorDiv(seconds + FloorDiv(us, Million), SecondsPerDay),
              (seconds + FloorDiv(us, Million)) - SecondsPerDay * FloorDiv(seconds + FloorDiv(us, Million), SecondsPerDay),
              us - Million * FloorDiv(us, Million))

\* the local fields of dt as a count from day 0
Stamp(dt) == TimeDelta(ToOrdinal(dt.y, dt.m, dt.d), dt.sec, dt.us)

StampLess(a, b) ==
    \/ a.days < b.days
    \/ a.days = b.days /\ a.seconds < b.seconds
    \/ a.days = b.days /\ a.seconds = b.seconds /\ a.microseconds < b.microseconds

StampAdd(a, b) == Normalised(a.days + b.days, a.seconds + b.seconds, a.microseconds + b.microseconds)

InRange(stamp) == stamp.days >= 1 /\ stamp.days <= ToOrdinal(MAXYEAR, 12, 31)

OfDate(ymd, stamp, zone, off) == DateTime(ymd[1], ymd[2], ymd[3], stamp.seconds, stamp.microseconds, zone, off)

\* the datetime with the local fields of stamp
OfStamp(stamp, zone, off) == OfDate(FromOrdinal(stamp.days), stamp, zone, off)

(***************************************************************************)
(* timedelta(days=.., hours=.., minutes=.., seconds=..) of floats.  Each   *)
(* argument is taken in turn, seconds first: its whole part goes to the    *)
(* microseconds counted so far, its fraction times the microseconds of the *)
(* unit is a double whose whole part goes there too and whose fraction is  *)
(* added to the double leftover_us.  At the end leftover_us is rounded to  *)
(* a whole number of microseconds, a half to the side that makes the       *)
(* total even.                                                             *)
(***************************************************************************)
Accumulator(sofar, leftover) == [sofar |-> sofar, leftover |-> leftover]

\* sofar plus n units of per seconds
PlusUnits(sofar, n, per) ==
    IF per = SecondsPerDay THEN Normalised(sofar.days + n, sofar.seconds, sofar.microseconds)
    ELSE Normalised(sofar.days, sofar.seconds + n * per, sofar.microseconds)

\* sofar plus sign times <<seconds, microseconds>>
PlusMicro(sofar, sign, pair) ==
    Normalised(sofar.days, sofar.seconds + sign * pair[1], sofar.microseconds + sign * pair[2])

\* factor * fracpart, the factor the microseconds of per seconds
Product(frac, per) ==
    Rounded(Dyadic(frac.sign, BigTimes(BigTimes(frac.n, per, 0), Million, 0), frac.k))

\* the second part of accum, for an argument with a fraction
AccumFraction(acc, product) ==
    Accumulator(PlusMicro(acc.sofar, product.sign,
                          BigDivMod(ShiftRight(product.n, product.k), Million)),
                DoubleSum(acc.leftover, FractionPart(product)))

accum(acc, num, per) ==
    IF FractionPart(num).n = <<>>
    THEN Accumulator(PlusUnits(acc.sofar, WholePart(num), per), acc.leftover)
    ELSE AccumFraction(Accumulator(PlusUnits(acc.sofar, WholePart(num), per), acc.leftover),
                       Product(FractionPart(num), per))

\* leftover_us rounded, a half going to the side that makes odd + result even
WholeMicro(leftover, odd) ==
    LET whole == Small(ShiftRight(leftover.n, leftover.k))
        side  == AgainstHalf(FractionPart(leftover))
    IN  IF side = 1 \/ (side = 0 /\ (whole + odd) % 2 = 1) THEN leftover.sign * (whole + 1)
        ELSE leftover.sign * whole

Finish(acc) ==
    Normalised(acc.sofar.days, acc.sofar.seconds,
               acc.sofar.microseconds + WholeMicro(acc.leftover, acc.sofar.microseconds % 2))

timedelta(days, hours, minutes, seconds) ==
    Finish(accum(accum(accum(accum(Accumulator(TimeDelta(0, 0, 0), Zero), seconds, 1),
                             minutes, 60), hours, 3600), days, SecondsPerDay))

\* self.days + (7.0 * self.weeks)
DaysAndWeeks(days, weeks) == DoubleSum(days, DoubleTimes(7, weeks))

\* the most days a timedelta holds, either way
MaxDeltaDays == 999999999

\* f"days={days}; must have magnitude <= 999999999"
ErrDeltaRange(days) ==
    Raise("OverflowError", "days; must have magnitude <= 999999999", <<>>, "", days, FALSE)

\* what the constructor raises for the timedelta it has counted
DeltaError(td) ==
    IF td.days > MaxDeltaDays \/ td.days < 0 - MaxDeltaDays THEN ErrDeltaRange(td.days) ELSE NoError

(***************************************************************************)
(* pytz: a zone with daylight saving, US/Eastern.  pytz holds the zone as  *)
(* a table of UTC transition instants, from local mean time (rounded by    *)
(* pytz to whole minutes) through the rules of each era to the last entry  *)
(* of the table in 2037; an instant past the table keeps the last entry,   *)
(* standard time.  Standard time is UTC-5, daylight time UTC-4; the clocks *)
(* change at 02:00 local time, 07:00 UTC in spring and 06:00 UTC in autumn.*)
(***************************************************************************)
StandardOffset == 0 - 18000

DaylightOffset == 0 - 14400

\* local mean time of New York, -4:56:02, as pytz rounds it
LocalMeanOffset == 0 - 17760

\* 1883-11-18 17:00 UTC, the start of standard time
StandardTimeStart == TimeDelta(ToOrdinal(1883, 11, 18), 17 * 3600, 0)

FirstDstYear == 1918

LastTableYear == 2037

\* the first Sunday on or after ordinal n (ordinals divisible by 7 are Sundays)
SundayFrom(n) == n + ((7 - (n % 7)) % 7)

\* the ordinal of the day the clocks go forward in year y
StartDay(y) ==
    IF y >= 2007 THEN SundayFrom(ToOrdinal(y, 3, 8))
    ELSE IF y >= 1987 THEN SundayFrom(ToOrdinal(y, 4, 1))
    ELSE IF y >= 1976 THEN SundayFrom(ToOrdinal(y, 4, 24))
    ELSE IF y = 1975 THEN ToOrdinal(y, 2, 23)
    ELSE IF y = 1974 THEN ToOrdinal(y, 1, 6)
    ELSE IF y >= 1946 THEN SundayFrom(ToOrdinal(y, 4, 24))
    ELSE IF y = 1942 THEN ToOrdinal(y, 2, 9)
    ELSE IF y >= 1921 THEN SundayFrom(ToOrdinal(y, 4, 24))
    ELSE SundayFrom(ToOrdinal(y, 3, 25))

\* the ordinal of the day the clocks go back in year y
EndDay(y) ==
    IF y >= 2007 THEN SundayFrom(ToOrdinal(y, 11, 1))
    ELSE IF y >= 1955 THEN SundayFrom(ToOrdinal(y, 10, 25))
    ELSE IF y >= 1921 THEN SundayFrom(ToOrdinal(y, 9, 24))
    ELSE SundayFrom(ToOrdinal(y, 10, 25))

\* war time ran from February 1942 to September 1945 without a break
DstStart(y) ==
    IF y >= 1943 /\ y <= 1945 THEN TimeDelta(ToOrdinal(y, 1, 1), 0, 0)
    ELSE TimeDelta(StartDay(y), 7 * 3600, 0)

DstEnd(y) ==
    IF y >= 1942 /\ y <= 1944 THEN TimeDelta(ToOrdinal(y + 1, 1, 1), 0, 0)
    ELSE TimeDelta(EndDay(y), 6 * 3600, 0)

YearOfStamp(stamp) == FromOrdinal(stamp.days)[1]

InDaylightTime(utc, y) ==
    /\ y >= FirstDstYear
    /\ y <= LastTableYear
    /\ ~StampLess(utc, DstStart(y))
    /\ StampLess(utc, DstEnd(y))

\* DstTzInfo.fromutc: the offset in force at a UTC instant
OffsetAt(utc) ==
    IF StampLess(utc, StandardTimeStart) THEN LocalMeanOffset
    ELSE IF InDaylightTime(utc, YearOfStamp(utc)) THEN DaylightOffset
    ELSE StandardOffset

\* local fields read with offset off are an instant at which off is in force
Exists(local, off) == OffsetAt(StampAdd(local, TimeDelta(0, 0 - off, 0))) = off

\* DstTzInfo.localize(naive, is_dst=False): the offset of the tzinfo chosen.
\* Of two readings the one that is not daylight time is taken, and of two
\* that are not daylight time the later instant; a time skipped by the
\* transition keeps its fields and takes the offset in force before it.
LocalizedOffset(local) ==
    IF Exists(local, StandardOffset) THEN StandardOffset
    ELSE IF Exists(local, LocalMeanOffset) THEN LocalMeanOffset
    ELSE IF Exists(local, DaylightOffset) THEN DaylightOffset
    ELSE StandardOffset

\* the tzinfo classes of datetime.timezone, which have no localize
FixedOffsets == {"UTC", "timezone"}

localize(dt, zone) == [dt EXCEPT !.zone = zone, !.off = LocalizedOffset(Stamp(dt))]

\* datetime.astimezone(pytz.utc), as a stamp
ToUtc(dt) == StampAdd(Stamp(dt), TimeDelta(0, 0 - dt.off, 0 - dt.offus))

\* utc.astimezone(tzinfo) for a tzinfo of zone
FromUtc(utc, zone) ==
    IF zone \in FixedOffsets THEN OfStamp(utc, zone, 0)
    ELSE OfStamp(StampAdd(utc, TimeDelta(0, OffsetAt(utc), 0)), zone, OffsetAt(utc))

(***************************************************************************)
(* Duration.__add__: the steps of adding a Duration to a datetime          *)
(***************************************************************************)
ErrFractionalMonths == Raise("ValueError", "fractional months are not supported", <<>>, "", 0, FALSE)

ErrYearRange(y) == Raise("ValueError", "year is out of range", <<>>, "", y, FALSE)

ErrDayRange == Raise("ValueError", "day is out of range for month", <<>>, "", 0, FALSE)

ErrOverflow == Raise("OverflowError", "date value out of range", <<>>, "", 0, FALSE)

ErrCannotAdd(name) == Raise("TypeError", "Cannot add Duration and", <<>>, name, 0, FALSE)

\* Python's % for a positive divisor
Mod(a, b) == a - b * FloorDiv(a, b)

new_zero_indexed_month(self, end_time) == end_time.m - 1 + Round(self["months"])

new_year_without_carry(self, end_time) == end_time.y + Round(self["years"])

new_year(self, end_time) ==
    end_time.y + Round(self["years"]) + FloorDiv(new_zero_indexed_month(self, end_time), 12)

new_month(self, end_time) == Mod(new_zero_indexed_month(self, end_time), 12) + 1

\* what datetime.replace(year=y, month=m) raises for day d
ReplaceError(y, m, d) ==
    IF y < MINYEAR \/ y > MAXYEAR THEN ErrYearRange(y)
    ELSE IF d > DaysInMonth(y, m) THEN ErrDayRange
    ELSE NoError

\* timedelta(days=self.days + (7.0 * self.weeks))
DaysDelta(self) == timedelta(DaysAndWeeks(self["days"], self["weeks"]), Zero, Zero, Zero)

\* timedelta(hours=self.hours, minutes=self.minutes, seconds=self.seconds)
ClockDelta(self) == timedelta(Zero, self["hours"], self["minutes"], self["seconds"])

\* naive_time += timedelta(days=self.days + 7.0 * self.weeks)
NaiveAfterDays(self, end_time) == StampAdd(Stamp(end_time), DaysDelta(self))

\* what the sum of a datetime and a timedelta raises: the timedelta is built
\* first
SumError(stamp, td) ==
    IF DeltaError(td) # NoError THEN DeltaError(td)
    ELSE IF ~InRange(StampAdd(stamp, td)) THEN ErrOverflow
    ELSE NoError

\* what the days step raises before localize is reached
DaysError(self, end_time) == SumError(Stamp(end_time), DaysDelta(self))

Relocated(naive, zone) == IF zone = "naive" THEN naive ELSE localize(naive, zone)

AfterDays_elapsed(self, end_time) ==
    IF end_time.zone = "naive"
    THEN OfStamp(NaiveAfterDays(self, end_time), "naive", 0)
    ELSE FromUtc(StampAdd(ToUtc(end_time), DaysDelta(self)), end_time.zone)

\* end_time after the days and weeks: added to the naive fields, then localized
AfterDays(self, end_time) ==
    Relocated(OfStamp(NaiveAfterDays(self, end_time), "naive", 0), end_time.zone)

\* utc_time += timedelta(hours=.., minutes=.., seconds=..)
UtcAfterTime(self, end_time) ==
    StampAdd(IF end_time.zone = "naive" THEN Stamp(end_time) ELSE ToUtc(end_time), ClockDelta(self))

\* what the time step raises
TimeError(self, end_time) ==
    SumError(IF end_time.zone = "naive" THEN Stamp(end_time) ELSE ToUtc(end_time), ClockDelta(self))

\* end_time after the hours, minutes and seconds: added in UTC
AfterTime(self, end_time) ==
    IF end_time.zone = "naive"
    THEN OfStamp(UtcAfterTime(self, end_time), "naive", 0)
    ELSE FromUtc(UtcAfterTime(self, end_time), end_time.zone)

\* Duration + timedelta
PlusTimedelta(self, td) ==
    Duration([years |-> self["years"], months |-> self["months"],
              days |-> QAdd(self["days"], QInt(td.days)),
              hours |-> self["hours"], minutes |-> self["minutes"],
              seconds |-> QAdd(self["seconds"], QInt(td.seconds))])

\* Duration + Duration
PlusDuration(self, other) ==
    Duration([years |-> QAdd(self["years"], other["years"]),
              months |-> QAdd(self["months"], other["months"]),
              days |-> QAdd(self["days"], other["days"]),
              hours |-> QAdd(self["hours"], other["hours"]),
              minutes |-> QAdd(self["minutes"], other["minutes"]),
              seconds |-> QAdd(self["seconds"], other["seconds"])])

(***************************************************************************)
(* start + duration as one call: the steps of Duration.__add__ in order,   *)
(* each an exception or the next end_time                                  *)
(***************************************************************************)
ErrNoLocalize == Raise("AttributeError", "object has no attribute 'localize'", <<>>, "", 0, FALSE)

Went(err, value) == [err |-> err, value |-> value]

PlusYear(self, dt) ==
    IF IsFractional(self["months"]) THEN Went(ErrFractionalMonths, dt)
    ELSE IF ReplaceError(new_year(self, dt), dt.m, dt.d) # NoError
    THEN Went(ReplaceError(new_year(self, dt), dt.m, dt.d), dt)
    ELSE Went(NoError, [dt EXCEPT !.y = new_year(self, dt)])

PlusMonth(self, dt, went) ==
    IF went.err # NoError THEN went
    ELSE IF ReplaceError(went.value.y, new_month(self, dt), went.value.d) # NoError
    THEN Went(ReplaceError(went.value.y, new_month(self, dt), went.value.d), dt)
    ELSE Went(NoError, [went.value EXCEPT !.m = new_month(self, dt)])

\* a datetime.timezone has no localize
PlusDays(self, went) ==
    IF went.err # NoError THEN went
    ELSE IF DaysError(self, went.value) # NoError THEN Went(DaysError(self, went.value), went.value)
    ELSE IF went.value.zone \in FixedOffsets THEN Went(ErrNoLocalize, went.value)
    ELSE Went(NoError, AfterDays(self, went.value))

PlusTime(self, went) ==
    IF went.err # NoError THEN went
    ELSE IF TimeError(self, went.value) # NoError THEN Went(TimeError(self, went.value), went.value)
    ELSE Went(NoError, AfterTime(self, went.value))

\* Duration.__radd__: other + self
radd(self, dt) == PlusTime(self, PlusDays(self, PlusMonth(self, dt, PlusYear(self, dt))))

(***************************************************************************)
(* datetime - datetime, datetime == datetime, Duration.from_timedelta      *)
(***************************************************************************)
IsAware(dt) == dt.zone # "naive"

\* the instant of an aware datetime, the fields of a naive one
Instant(dt) == IF IsAware(dt) THEN ToUtc(dt) ELSE Stamp(dt)

\* a - b
Minus(a, b) ==
    Normalised(Instant(a).days - Instant(b).days, Instant(a).seconds - Instant(b).seconds,
               Instant(a).microseconds - Instant(b).microseconds)

\* a == b: a naive and an aware datetime are never equal
SameTime(a, b) == IsAware(a) = IsAware(b) /\ Instant(a) = Instant(b)

\* td.microseconds / 1000000.0
MicrosecondsAsSeconds(td) == DoubleOf(<<0, td.microseconds * (Scale \div Million)>>)

from_timedelta(td) ==
    Duration([days |-> QInt(td.days),
              seconds |-> QAdd(QInt(td.seconds), MicrosecondsAsSeconds(td))])

(***************************************************************************)
(* The strings given to Duration.fromisoformat                             *)
(***************************************************************************)
\* the longest designator-form input, counted in (value, letter) items
MaxItems == 3

Cat(a, b) == {x \o y : x \in a, y \in b}

\* an item of a designator-form string: a value, possibly empty, and a letter
OrderValues == {<<>>, <<"1">>}

OrderLetters == {"Y", "M", "W", "D", "T", "H", "S", "X"}

OrderItems == Cat(OrderValues, {<<l>> : l \in OrderLetters})

RECURSIVE ItemStrings(_)
ItemStrings(n) == IF n = 0 THEN {<<>>}
                  ELSE ItemStrings(n - 1) \cup Cat(ItemStrings(n - 1), OrderItems)

OrderInputs == Cat({<<"P">>}, ItemStrings(MaxItems))

\* measurement values, well-formed and not
RichValues ==
    {<<"1">>, <<"0">>, <<"1", "2">>, <<"1", ".", "5">>, <<"1", ",", "5">>, <<".", "5">>,
     <<"1", ".">>, <<"1", ".", "0", ".", "0">>, <<"1", ".", ",", "0">>,
     <<"0", ".", "0", "0", "0", "0", "0", "1">>,
     <<"0", ".", "0", "0", "0", "0", "0", "0", "1">>,
     <<"1", ".", "0", "0", "0", "0", "0", "0", "9">>,
     <<"0", ".", "9", "9", "9", "9", "9", "9", "9">>}

ValueInputs ==
    Cat({<<"P">>}, Cat(RichValues, {<<"Y">>, <<"W">>, <<"D">>}))
    \cup Cat({<<"P", "T">>}, Cat(RichValues, {<<"H">>, <<"S">>}))
    \cup Cat(Cat({<<"P">>}, Cat(RichValues, {<<"D">>})), Cat({<<"T">>}, Cat(RichValues, {<<"S">>})))

\* fixed-width fields
YearFields == {<<"0", "0", "0", "0">>, <<"0", "0", "0", "1">>, <<"1", "e", "0", "5">>,
               <<"1", "e", "+", "5">>, <<"+", "0", "0", "1">>}

MonthFields == {<<"0", "0">>, <<"1", "2">>, <<"1", "3">>, <<".", "1">>, <<"1", "e">>, <<"-", "2">>}

DayFields == {<<"0", "0">>, <<"3", "1">>, <<"3", "2">>}

OrdinalFields == {<<"0", "0", "0">>, <<"3", "6", "6">>, <<"3", "6", "7">>, <<"1", "e", "2">>,
                  <<"3", "6", "e">>}

HourFields == {<<"0", "0">>, <<"2", "3">>, <<"2", "4">>}

MinuteFields == {<<"0", "0">>, <<"5", "9">>, <<"6", "0">>, <<"-", "2">>}

SecondFields == {<<"0", "0">>, <<"5", "9">>, <<"6", "0">>}

FractionFields == {<<>>, <<".">>, <<".", "9">>, <<".", "5", "e", "1">>,
                   <<".", "0", "0", "0", "0", "0", "0", "9">>}

Dash == {<<"-">>}

Colon == {<<":">>}

DateInputs ==
    Cat(YearFields, Cat(Dash, OrdinalFields))
    \cup Cat(YearFields, Cat(Dash, Cat(MonthFields, Cat(Dash, DayFields))))
    \cup Cat(YearFields, OrdinalFields)
    \cup Cat(YearFields, Cat(MonthFields, DayFields))

TimeInputs ==
    Cat(HourFields, Cat(Colon, Cat(MinuteFields, Cat(Colon, Cat(SecondFields, FractionFields)))))
    \cup Cat(HourFields, Cat(MinuteFields, Cat(SecondFields, FractionFields)))

FixedInputs ==
    Cat({<<"P">>}, DateInputs)
    \cup Cat({<<"P", "T">>}, TimeInputs)
    \cup Cat(Cat({<<"P">>}, {<<"0", "0", "0", "1", "-", "0", "0", "1">>,
                              <<"0", "0", "0", "0", "-", "3", "6", "7">>,
                              <<"0", "0", "0", "1", "1", "2", "3", "1">>}),
             Cat({<<"T">>}, {<<"0", "0", ":", "0", "0", ":", "0", "0">>,
                             <<"2", "3", "5", "9", "5", "9", ".", "9">>,
                             <<"2", "4", ":", "0", "0", ":", "0", "0">>}))

\* incomplete strings, strings without the prefix, stray characters
OtherInputs ==
    {<<>>, <<"T">>, <<"x">>, <<"1", "D">>, <<"P", "P">>, <<"P", "1">>, <<"P", "T", "1">>,
     <<"P", "1", "D", "T", "1">>, <<"P", "x">>, <<"P", "-", "1", "D">>, <<"P", "+", "1", "D">>,
     <<"P", "1", ".", "0", "e", "+", "1", "D">>, <<"P", "1", "0", ".", "0", "E", "-", "1", "D">>,
     <<"P", "0", "0", "0", "0", "y", "0", "0", "m", "0", "0">>,
     <<"P", "T", "0", "1", ":", "0", "2", ":", "3", ".", "4">>,
     <<"P", "1", "Y", "6", "M", "T", "4", "H">>,
     <<"P", "T", "0", "0", ":", "0", "0", ":", "0", "1", ".", "0", "0", "0", "0", "0", "0", "x", "y", "z">>,
     <<"P", "T", "0", "0", "0", "0", "0", "0", ".", "1", "2", "3", "4", "5", "6", "7", "8", "9">>}

\* a capital E with an acute accent, a capital omega
Accented == {Chr(201), Chr(937)}

\* a vertical tab, a no-break space and a next line, which float() strips,
\* and a file separator, which str.isspace() holds and float() keeps
Blanks == {Chr(11), Chr(160), Chr(133), Chr(28)}

\* the Arabic-Indic digits zero and one
ArabicZero == Chr(1632)

ArabicOne == Chr(1633)

\* a superscript two: a digit that is no decimal digit
SuperscriptTwo == Chr(178)

\* capitals outside ASCII, white space and digits of other scripts
UnicodeInputs ==
    {<<"P", "1", c>> : c \in Accented}
    \cup {<<"P", "0", "0", "1", c, "0", "0", "1">> : c \in Blanks}
    \cup {<<"P", "1", c, "D">> : c \in Blanks}
    \cup {<<"P", ArabicZero, ArabicZero, ArabicZero, ArabicOne, "-", ArabicZero, ArabicZero, ArabicOne>>,
          <<"P", ArabicOne, "D">>,
          <<"P", "T", "0", "0", ":", "0", "0", ":", "0", ArabicOne, ".", ArabicOne>>,
          <<"P", SuperscriptTwo, "0", "D">>,
          <<"P", SuperscriptTwo, "0", "0", "1", "-", "0", "0", "1">>,
          <<"P", "0", "0", "0", SuperscriptTwo, "-", "0", "0", "1">>,
          <<"P", "0", "0", "0", "1", "-", SuperscriptTwo, "0", "1">>}

\* capitals that are no designator; values with an underscore or a space,
\* which float() accepts; seconds half way between two microseconds
FloatInputs ==
    {<<"P", "1", "Z">>,
     <<"P", "1", "A">>,
     <<"P", "1", "_", "0", "0", "0", "0", "1">>,
     <<"P", "0", "0", "1", " ", "0", "0", "1">>,
     <<"P", "1", "_", "0", "D">>,
     <<"P", "1", "_", "_", "0", "D">>,
     <<"P", "1", " ", "D">>,
     <<"P", "T", "0", ".", "0", "0", "0", "0", "0", "2", "5", "S">>,
     <<"P", "T", "0", ".", "0", "0", "0", "0", "0", "3", "5", "S">>,
     <<"P", "T", "1", ".", "0", "0", "0", "0", "0", "0", "5", "S">>,
     <<"P", "T", "0", ".", "3", "0", "0", "0", "0", "0", "5", "S">>}

Inputs ==
    OrderInputs \cup ValueInputs \cup FixedInputs \cup OtherInputs \cup FloatInputs \cup UnicodeInputs

(***************************************************************************)
(* The parsing machine: a call Duration.fromisoformat(text), the sweep one *)
(* character at a time, then isoformat() of the result and                 *)
(* fromisoformat() of that.                                                *)
(***************************************************************************)
VARIABLES
    text,       \* the argument of Duration.fromisoformat
    pc,         \* "call", "sweep", "returned", "formatted", "reparsed"
    pos,        \* the characters of text[1:] the sweep has consumed
    sweep,      \* the sweep's local variables
    parsed,     \* what the call returned or raised
    formatted,  \* isoformat() of the Duration returned
    reparsed,   \* fromisoformat(formatted)
    duration,   \* self, in duration + other
    other,      \* the other operand: its type and its value
    apc,        \* "call", "year", "month", "days", "returned", "raised"
    end_time,   \* the local variable end_time of __add__
    sum,        \* the Duration returned by Duration + Duration or + timedelta
    failure,    \* the exception raised by __add__
    interval,   \* the argument of Interval.fromisoformat
    given,      \* the arguments start, end and duration of Interval(...)
    this,       \* self.start, self.end and self.duration, as assigned so far
    ipc,        \* "fromisoformat", "halves", "init", "check", "constructed", "raised"
    refusal,    \* the exception raised by Interval
    first,      \* three Durations to compare
    second,
    third,
    opc,        \* "call", "compared"
    verdict     \* what the comparisons returned

parseVars == <<text, pc, pos, sweep, parsed, formatted, reparsed>>

addVars == <<duration, other, apc, end_time, sum, failure>>

intervalVars == <<interval, given, this, ipc, refusal>>

orderVars == <<first, second, third, opc, verdict>>

vars == <<text, pc, pos, sweep, parsed, formatted, reparsed,
          duration, other, apc, end_time, sum, failure,
          interval, given, this, ipc, refusal,
          first, second, third, opc, verdict>>

Operand(type, value) == [type |-> type, value |-> value]

NoDateTime == DateTime(MINYEAR, 1, 1, 0, 0, "naive", 0)

\* no addition is under way
AddIdle ==
    /\ duration = Duration(NoKwargs)
    /\ other = Operand("none", NoDateTime)
    /\ apc = "idle"
    /\ end_time = NoDateTime
    /\ sum = Duration(NoKwargs)
    /\ failure = NoError

\* an argument that is None, and one that is given
Absent(default) == [some |-> FALSE, value |-> default]

Some(value) == [some |-> TRUE, value |-> value]

Triple(start, end, span) == [start |-> start, end |-> end, duration |-> span]

Nothing == Triple(Absent(NoDateTime), Absent(NoDateTime), Absent(Duration(NoKwargs)))

\* no Interval is under construction
IntervalIdle ==
    /\ interval = <<>>
    /\ given = Nothing
    /\ this = Nothing
    /\ ipc = "idle"
    /\ refusal = NoError

Verdict(forth, back, same, chain, through) ==
    [lt |-> forth, back |-> back, eq |-> same, chain |-> chain, through |-> through]

\* no comparison is under way
OrderIdle ==
    /\ first = Duration(NoKwargs)
    /\ second = Duration(NoKwargs)
    /\ third = Duration(NoKwargs)
    /\ opc = "idle"
    /\ verdict = Verdict(FALSE, FALSE, FALSE, FALSE, FALSE)

NoOutcome == Outcome(Chain(NoKwargs, <<>>, NoError), <<>>)

Init ==
    /\ text \in Inputs
    /\ pc = "call"
    /\ pos = 0
    /\ sweep = SweepInit
    /\ parsed = NoOutcome
    /\ formatted = <<>>
    /\ reparsed = NoOutcome
    /\ AddIdle
    /\ IntervalIdle
    /\ OrderIdle

\* assert duration.startswith("P")
RejectPrefix ==
    /\ pc = "call"
    /\ ~StartsWithP(text)
    /\ parsed' = Outcome(Chain(NoKwargs, <<>>, ErrPrefix), text)
    /\ pc' = "returned"
    /\ UNCHANGED <<text, pos, sweep, formatted, reparsed>>
    /\ UNCHANGED <<addVars, intervalVars, orderVars>>

\* duration[-1].isupper(): the sweep starts
BeginSweep ==
    /\ pc = "call"
    /\ StartsWithP(text)
    /\ IsDesignatorForm(text)
    /\ pc' = "sweep"
    /\ UNCHANGED <<text, pos, sweep, parsed, formatted, reparsed>>
    /\ UNCHANGED <<addVars, intervalVars, orderVars>>

\* one character of the sweep; an exception ends the call
SweepChar ==
    /\ pc = "sweep"
    /\ pos < Len(text) - 1
    /\ LET st == SweepStep(sweep, text[pos + 2])
       IN  /\ sweep' = st
           /\ pos' = pos + 1
           /\ IF st.chain.err # NoError
              THEN parsed' = Outcome(st.chain, text) /\ pc' = "returned"
              ELSE UNCHANGED <<parsed, pc>>
    /\ UNCHANGED <<text, formatted, reparsed>>
    /\ UNCHANGED <<addVars, intervalVars, orderVars>>

\* the end of the string: the final assertion, and Duration(**dict(...))
SweepFinish ==
    /\ pc = "sweep"
    /\ pos = Len(text) - 1
    /\ sweep' = SweepEnd(sweep)
    /\ parsed' = Outcome(sweep'.chain, text)
    /\ pc' = "returned"
    /\ UNCHANGED <<text, pos, formatted, reparsed>>
    /\ UNCHANGED <<addVars, intervalVars, orderVars>>

\* the fixed-width date and time segments
ParseFixed ==
    /\ pc = "call"
    /\ StartsWithP(text)
    /\ ~IsDesignatorForm(text)
    /\ parsed' = Outcome(from_fixed(Tail(text)), text)
    /\ pc' = "returned"
    /\ UNCHANGED <<text, pos, sweep, formatted, reparsed>>
    /\ UNCHANGED <<addVars, intervalVars, orderVars>>

Format ==
    /\ pc = "returned"
    /\ parsed.raised = "none"
    /\ formatted' = isoformat(parsed.value)
    /\ pc' = "formatted"
    /\ UNCHANGED <<text, pos, sweep, parsed, reparsed>>
    /\ UNCHANGED <<addVars, intervalVars, orderVars>>

Reparse ==
    /\ pc = "formatted"
    /\ reparsed' = fromisoformat(formatted)
    /\ pc' = "reparsed"
    /\ UNCHANGED <<text, pos, sweep, parsed, formatted>>
    /\ UNCHANGED <<addVars, intervalVars, orderVars>>

Next ==
    \/ RejectPrefix
    \/ BeginSweep
    \/ SweepChar
    \/ SweepFinish
    \/ ParseFixed
    \/ Format
    \/ Reparse

Spec == Init /\ [][Next]_vars

(***************************************************************************)
(* The operands of the additions                                           *)
(***************************************************************************)
\* the float written whole.parts, parts on four digits
Dec(whole, parts) == DoubleOf(<<whole, parts * (Scale \div 10000)>>)

AddYears == {QInt(0), QInt(1), Dec(1, 5000)}

AddMonths == {QInt(0), QInt(1), QInt(2), QInt(13), Dec(0, 5000)}

AddWeeks == {QInt(0), QInt(1)}

\* a day more than a timedelta holds
AddDays == {QInt(0), QInt(1), Dec(1, 5000), QInt(MaxDeltaDays + 1)}

AddHours == {QInt(0), QInt(23), QInt(24), QInt(25)}

AddMinutes == {QInt(0), QInt(90)}

\* 1.0000005 lies half way between two microseconds
AddSeconds == {QInt(0), Dec(1, 5), DoubleOf(<<1, 5 * (Scale \div 10000000)>>)}

AddDurations ==
    {Duration([years |-> y, months |-> m, weeks |-> w, days |-> d,
               hours |-> h, minutes |-> mi, seconds |-> sc]) :
        y \in AddYears, m \in AddMonths, w \in AddWeeks, d \in AddDays,
        h \in AddHours, mi \in AddMinutes, sc \in AddSeconds}

Zone == "US/Eastern"

NaiveStarts ==
    {DateTime(ymd[1], ymd[2], ymd[3], 0, 0, "naive", 0) :
        ymd \in {<<1999, 1, 28>>, <<1999, 1, 29>>, <<2000, 1, 31>>, <<2000, 2, 29>>,
                 <<2000, 4, 30>>, <<2001, 1, 28>>}}
    \cup {DateTime(2000, 12, 31, SecondsPerDay - 1, Million - 1, "naive", 0)}

\* the days about the changes of 2020, and one between the second Sunday of
\* March and the first Sunday of April of a year before 2007
TransitionDays == {<<2020, 3, 7>>, <<2020, 3, 8>>, <<2020, 10, 31>>, <<2020, 11, 1>>}

EarlierDays == {<<2000, 3, 15>>}

WallClocks == {1 * 3600, 2 * 3600, 3 * 3600, 12 * 3600}

Naive(ymd, sec) == DateTime(ymd[1], ymd[2], ymd[3], sec, 0, "naive", 0)

OnTheClock(dt) == Exists(Stamp(dt), StandardOffset) \/ Exists(Stamp(dt), DaylightOffset)

\* eastern.localize(datetime(...)) of the wall-clock times that exist
AwareStarts ==
    {localize(Naive(ymd, sec), Zone) :
        <<ymd, sec>> \in {x \in TransitionDays \X WallClocks : OnTheClock(Naive(x[1], x[2]))}}
    \cup {localize(Naive(ymd, 12 * 3600), Zone) : ymd \in EarlierDays}

\* datetime(2000, 1, 1, tzinfo=datetime.timezone.utc)
UtcStarts == {DateTime(2000, 1, 1, 0, 0, "UTC", 0)}

Spans == {TimeDelta(0, 0, 0), TimeDelta(1, 5, 7), TimeDelta(7, SecondsPerDay - 1, 0)}

Addends ==
    {Duration(NoKwargs),
     Duration([weeks |-> QInt(2), hours |-> QInt(1)]),
     Duration([years |-> QInt(1), months |-> Dec(0, 5000), weeks |-> Dec(0, 5000), days |-> QInt(1),
               hours |-> QInt(1), minutes |-> QInt(30), seconds |-> Dec(59, 9999)])}

(***************************************************************************)
(* The addition machine: duration + other, a datetime taken through the    *)
(* steps of __add__ in the order of the code                               *)
(***************************************************************************)
ParseIdle ==
    /\ text = <<>>
    /\ pc = "idle"
    /\ pos = 0
    /\ sweep = SweepInit
    /\ parsed = NoOutcome
    /\ formatted = <<>>
    /\ reparsed = NoOutcome

InitAdd ==
    /\ ParseIdle
    /\ IntervalIdle
    /\ OrderIdle
    /\ duration \in AddDurations
    /\ \/ other \in {Operand("datetime", dt) : dt \in NaiveStarts \cup AwareStarts \cup UtcStarts}
       \/ other \in {Operand("timedelta", td) : td \in Spans}
       \/ other \in {Operand("Duration", d) : d \in Addends}
       \/ other = Operand("int", NoDateTime)
    /\ apc = "call"
    /\ end_time = NoDateTime
    /\ sum = Duration(NoKwargs)
    /\ failure = NoError

Raised(err) ==
    /\ failure' = err
    /\ apc' = "raised"
    /\ UNCHANGED <<duration, other, end_time, sum>>

Stepped(to, value) ==
    /\ end_time' = value
    /\ apc' = to
    /\ UNCHANGED <<duration, other, sum, failure>>

\* the months check, and end_time.replace(year=new_year)
ApplyYear ==
    /\ apc = "call"
    /\ other.type = "datetime"
    /\ IF IsFractional(duration["months"])
       THEN Raised(ErrFractionalMonths)
       ELSE IF ReplaceError(new_year(duration, other.value), other.value.m, other.value.d) # NoError
       THEN Raised(ReplaceError(new_year(duration, other.value), other.value.m, other.value.d))
       ELSE Stepped("year", [other.value EXCEPT !.y = new_year(duration, other.value)])
    /\ UNCHANGED <<parseVars, intervalVars, orderVars>>

\* end_time.replace(month=(new_zero_indexed_month % 12) + 1)
ApplyMonth ==
    /\ apc = "year"
    /\ IF ReplaceError(end_time.y, new_month(duration, other.value), end_time.d) # NoError
       THEN Raised(ReplaceError(end_time.y, new_month(duration, other.value), end_time.d))
       ELSE Stepped("month", [end_time EXCEPT !.m = new_month(duration, other.value)])
    /\ UNCHANGED <<parseVars, intervalVars, orderVars>>

\* the days and weeks, ignoring time
ApplyDays ==
    /\ apc = "month"
    /\ IF DaysError(duration, end_time) # NoError THEN Raised(DaysError(duration, end_time))
       ELSE IF end_time.zone \in FixedOffsets THEN Raised(ErrNoLocalize)
       ELSE Stepped("days", AfterDays(duration, end_time))
    /\ UNCHANGED <<parseVars, intervalVars, orderVars>>

\* the hours, minutes and seconds, in UTC
ApplyTime ==
    /\ apc = "days"
    /\ IF TimeError(duration, end_time) = NoError
       THEN Stepped("returned", AfterTime(duration, end_time))
       ELSE Raised(TimeError(duration, end_time))
    /\ UNCHANGED <<parseVars, intervalVars, orderVars>>

AddTimedelta ==
    /\ apc = "call"
    /\ other.type = "timedelta"
    /\ sum' = PlusTimedelta(duration, other.value)
    /\ apc' = "returned"
    /\ UNCHANGED <<duration, other, end_time, failure>>
    /\ UNCHANGED <<parseVars, intervalVars, orderVars>>

AddDuration ==
    /\ apc = "call"
    /\ other.type = "Duration"
    /\ sum' = PlusDuration(duration, other.value)
    /\ apc' = "returned"
    /\ UNCHANGED <<duration, other, end_time, failure>>
    /\ UNCHANGED <<parseVars, intervalVars, orderVars>>

\* any other type
AddUnsupported ==
    /\ apc = "call"
    /\ other.type \notin {"datetime", "timedelta", "Duration"}
    /\ Raised(ErrCannotAdd(other.type))
    /\ UNCHANGED <<parseVars, intervalVars, orderVars>>

NextAdd ==
    \/ ApplyYear
    \/ ApplyMonth
    \/ ApplyDays
    \/ ApplyTime
    \/ AddTimedelta
    \/ AddDuration
    \/ AddUnsupported

SpecAdd == InitAdd /\ [][NextAdd]_vars

(***************************************************************************)
(* datetime.datetime.fromisoformat: a date YYYY-MM-DD, YYYYMMDD,           *)
(* YYYY-Www[-d] or YYYYWww[d]; then, after any one character, a time       *)
(* HH[:MM[:SS]] or HH[MM[SS]], a fraction after '.' or ',' of which six    *)
(* digits are kept, and 'Z' or an offset of the same form after '+' or     *)
(* '-'.  The string is read as the C implementation reads it, character by *)
(* character up to the NUL that ends it; the fields are checked against    *)
(* their ranges only when the datetime is built.                           *)
(***************************************************************************)
ErrIsoformat == Raise("ValueError", "Invalid isoformat string", <<>>, "", 0, FALSE)

ErrMonthRange == Raise("ValueError", "month must be in 1..12", <<>>, "", 0, FALSE)

ErrHourRange == Raise("ValueError", "hour must be in 0..23", <<>>, "", 0, FALSE)

ErrMinuteRange == Raise("ValueError", "minute must be in 0..59", <<>>, "", 0, FALSE)

ErrSecondRange == Raise("ValueError", "second must be in 0..59", <<>>, "", 0, FALSE)

ErrOffsetRange == Raise("ValueError", "offset must be a timedelta strictly between -timedelta(hours=24) and timedelta(hours=24)",
                        <<>>, "", 0, FALSE)

\* the character at index i, counted from 1; "" is the NUL after the last one
CharAt(s, i) == IF i >= 1 /\ i <= Len(s) THEN s[i] ELSE ""

\* parse_digits: n digits from index i
DigitsAt(s, i, n) == \A k \in i..(i + n - 1) : CharAt(s, k) \in Digits

NumberAt(s, i, n) == NatOf(SubSeq(s, i, i + n - 1))

\* the first index from i on that holds no digit
SkipDigits(s, i) ==
    CHOOSE q \in i..(Len(s) + 1) : CharAt(s, q) \notin Digits /\ \A k \in i..(q - 1) : s[k] \in Digits

\* YYYYWww or YYYYWwwd before the separator: by the count of the digits that
\* follow, the counts of the C code being from 0
WeekSeparator(s) ==
    IF SkipDigits(s, 8) - 1 < 9 THEN SkipDigits(s, 8) - 1
    ELSE IF (SkipDigits(s, 8) - 1) % 2 = 0 THEN 7
    ELSE 8

\* the count of characters before the separator, -1 for none
find_isoformat_datetime_separator(s) ==
    IF Len(s) = 7 THEN 7
    ELSE IF CharAt(s, 5) = "-"
    THEN IF CharAt(s, 6) # "W" THEN 10
         ELSE IF Len(s) < 8 THEN 0 - 1
         ELSE IF ~(Len(s) > 8 /\ CharAt(s, 9) = "-") THEN 8
         ELSE IF Len(s) = 9 THEN 0 - 1
         ELSE IF Len(s) > 10 /\ CharAt(s, 11) \in Digits THEN 8
         ELSE 10
    ELSE IF CharAt(s, 5) = "W" THEN WeekSeparator(s)
    ELSE 8

NoDate == [ok |-> FALSE, ymd |-> <<0, 0, 0>>]

Date(y, m, d) == [ok |-> TRUE, ymd |-> <<y, m, d>>]

\* 0 for a year whose January 1st is a Monday
FirstWeekday(y) == (ToOrdinal(y, 1, 1) + 6) % 7

iso_week1_monday(y) ==
    ToOrdinal(y, 1, 1) - FirstWeekday(y) + (IF FirstWeekday(y) > 3 THEN 7 ELSE 0)

HasWeek53(y) == FirstWeekday(y) = 3 \/ (FirstWeekday(y) = 2 /\ IsLeap(y))

\* The days of ISO year 0 have ordinals below 1, from which the code
\* computes year 1 and a month below 1; year 0 has no week 53.
iso_to_ymd(y, w, d) ==
    IF w < 1 \/ w > 53 \/ (w = 53 /\ (y < MINYEAR \/ ~HasWeek53(y))) THEN NoDate
    ELSE IF d < 1 \/ d > 7 THEN NoDate
    ELSE IF y < MINYEAR THEN Date(MINYEAR, 0, 0)
    ELSE [ok |-> TRUE, ymd |-> FromOrdinal(iso_week1_monday(y) + (w - 1) * 7 + d - 1)]

UsesSeparator(s) == CharAt(s, 5) = "-"

\* the index after the year and its separator
AfterYear(s) == IF UsesSeparator(s) THEN 6 ELSE 5

\* the index of the day of the week, the W being at index p
WeekdayAt(s, p) == IF UsesSeparator(s) THEN p + 4 ELSE p + 3

ParseWeek(s, p, loc) ==
    IF ~DigitsAt(s, p + 1, 2) THEN NoDate
    ELSE IF ~(loc < 0 \/ p + 2 < loc) THEN iso_to_ymd(NumberAt(s, 1, 4), NumberAt(s, p + 1, 2), 1)
    ELSE IF UsesSeparator(s) /\ CharAt(s, p + 3) # "-" THEN NoDate
    ELSE IF ~DigitsAt(s, WeekdayAt(s, p), 1) THEN NoDate
    ELSE iso_to_ymd(NumberAt(s, 1, 4), NumberAt(s, p + 1, 2), NumberAt(s, WeekdayAt(s, p), 1))

\* the index of the day of the month, the month being at index p
DayAt(s, p) == IF UsesSeparator(s) THEN p + 3 ELSE p + 2

ParseCalendar(s, p) ==
    IF ~DigitsAt(s, p, 2) THEN NoDate
    ELSE IF UsesSeparator(s) /\ CharAt(s, p + 2) # "-" THEN NoDate
    ELSE IF ~DigitsAt(s, DayAt(s, p), 2) THEN NoDate
    ELSE Date(NumberAt(s, 1, 4), NumberAt(s, p, 2), NumberAt(s, DayAt(s, p), 2))

parse_isoformat_date(s, loc) ==
    IF ~DigitsAt(s, 1, 4) THEN NoDate
    ELSE IF CharAt(s, AfterYear(s)) = "W" THEN ParseWeek(s, AfterYear(s), loc)
    ELSE ParseCalendar(s, AfterYear(s))

\* the result of parse_hh_mm_ss_ff: rv below 0 for a failure, 1 when
\* characters are left, and hour, minute and second in vals
Clock(rv, vals, us) == [rv |-> rv, vals |-> vals, us |-> us]

\* the text t is followed in the string by the character stop
Terminated(t, stop, i) == IF i <= Len(t) THEN t[i] ELSE stop

FractionLength(t, p) == IF Len(t) + 1 - p >= 6 THEN 6 ELSE Len(t) + 1 - p

\* the fraction from index p, its digits past the sixth skipped
Microsecond(t, stop, p, vals) ==
    IF ~DigitsAt(t, p, FractionLength(t, p)) THEN Clock(0 - 3, vals, 0)
    ELSE Clock(IF Terminated(t, stop, SkipDigits(t, p + FractionLength(t, p))) = "" THEN 0 ELSE 1,
               vals, NumberAt(t, p, FractionLength(t, p)) * 10 ^ (6 - FractionLength(t, p)))

RECURSIVE parse_hh_mm_ss_ff(_, _, _, _, _, _)
RECURSIVE Separated(_, _, _, _, _, _)
\* field i (0, 1, 2) at index p; sep when a ':' followed the hour
parse_hh_mm_ss_ff(t, stop, p, i, sep, vals) ==
    IF i = 3 THEN Microsecond(t, stop, p, vals)
    ELSE IF ~(p + 1 <= Len(t) /\ DigitsAt(t, p, 2)) THEN Clock(0 - 3, vals, 0)
    ELSE Separated(t, stop, p + 2, i, IF i = 0 THEN Terminated(t, stop, p + 2) = ":" ELSE sep,
                   [vals EXCEPT ![i + 1] = NumberAt(t, p, 2)])

\* the character at index p, after the two digits of field i
Separated(t, stop, p, i, sep, vals) ==
    IF p >= Len(t) THEN Clock(IF Terminated(t, stop, p) = "" THEN 0 ELSE 1, vals, 0)
    ELSE IF sep /\ t[p] = ":" THEN parse_hh_mm_ss_ff(t, stop, p + 1, i + 1, sep, vals)
    ELSE IF t[p] \in {".", ","} THEN Microsecond(t, stop, p + 1, vals)
    ELSE IF ~sep THEN parse_hh_mm_ss_ff(t, stop, p, i + 1, sep, vals)
    ELSE Clock(0 - 4, vals, 0)

ZoneMarks == {"Z", "+", "-"}

\* the index of the first of Z, + and -, past the end for none
ZoneAt(t) ==
    IF \E i \in 1..Len(t) : t[i] \in ZoneMarks
    THEN CHOOSE i \in 1..Len(t) : t[i] \in ZoneMarks /\ \A k \in 1..(i - 1) : t[k] \notin ZoneMarks
    ELSE Len(t) + 1

\* the result of parse_isoformat_time: rv 1 when an offset was given
Time(rv, clock, tzoffset, tzmicrosecond) ==
    [rv |-> rv, clock |-> clock, tzoffset |-> tzoffset, tzmicrosecond |-> tzmicrosecond]

NoTime == Time(0 - 1, Clock(0, <<0, 0, 0>>, 0), 0, 0)

Midnight0 == Time(0, Clock(0, <<0, 0, 0>>, 0), 0, 0)

Sign(c) == IF c = "-" THEN 0 - 1 ELSE 1

InSeconds(vals) == vals[1] * 3600 + vals[2] * 60 + vals[3]

\* the offset after the sign at index z
Offset(clock, sign, tz) ==
    IF tz.rv # 0 THEN NoTime ELSE Time(1, clock, sign * InSeconds(tz.vals), sign * tz.us)

Zoned(t, z, clock) ==
    IF clock.rv < 0 THEN NoTime
    ELSE IF z > Len(t) THEN (IF clock.rv = 1 THEN NoTime ELSE Time(0, clock, 0, 0))
    ELSE IF t[z] = "Z" THEN (IF z < Len(t) THEN NoTime ELSE Time(1, clock, 0, 0))
    ELSE Offset(clock, Sign(t[z]), parse_hh_mm_ss_ff(SubSeq(t, z + 1, Len(t)), "", 1, 0, TRUE, <<0, 0, 0>>))

parse_isoformat_time(t) ==
    Zoned(t, ZoneAt(t), parse_hh_mm_ss_ff(SubSeq(t, 1, ZoneAt(t) - 1), CharAt(t, ZoneAt(t)), 1, 0, TRUE, <<0, 0, 0>>))

\* what building the datetime raises
FieldError(ymd, vals) ==
    IF ymd[1] < MINYEAR \/ ymd[1] > MAXYEAR THEN ErrYearRange(ymd[1])
    ELSE IF ymd[2] < 1 \/ ymd[2] > 12 THEN ErrMonthRange
    ELSE IF ymd[3] < 1 \/ ymd[3] > DaysInMonth(ymd[1], ymd[2]) THEN ErrDayRange
    ELSE IF vals[1] > 23 THEN ErrHourRange
    ELSE IF vals[2] > 59 THEN ErrMinuteRange
    ELSE IF vals[3] > 59 THEN ErrSecondRange
    ELSE NoError

\* timezone.utc for an offset of no whole seconds, else timezone(timedelta)
ZoneOf(time) ==
    IF time.rv = 0 THEN "naive" ELSE IF time.tzoffset = 0 THEN "UTC" ELSE "timezone"

Built(ymd, time) ==
    IF time.rv = 1 /\ time.tzoffset # 0 /\ (time.tzoffset >= SecondsPerDay \/ time.tzoffset <= 0 - SecondsPerDay)
    THEN Went(ErrOffsetRange, NoDateTime)
    ELSE IF FieldError(ymd, time.clock.vals) # NoError THEN Went(FieldError(ymd, time.clock.vals), NoDateTime)
    ELSE Went(NoError,
              [DateTime(ymd[1], ymd[2], ymd[3], InSeconds(time.clock.vals), time.clock.us,
                        ZoneOf(time), time.tzoffset)
               EXCEPT !.offus = IF time.tzoffset = 0 THEN 0 ELSE time.tzmicrosecond])

Timed(s, loc, date) ==
    IF ~date.ok THEN Went(ErrIsoformat, NoDateTime)
    ELSE IF Len(s) <= loc THEN Built(date.ymd, Midnight0)
    ELSE IF parse_isoformat_time(SubSeq(s, loc + 2, Len(s))).rv < 0 THEN Went(ErrIsoformat, NoDateTime)
    ELSE Built(date.ymd, parse_isoformat_time(SubSeq(s, loc + 2, Len(s))))

\* no date has fewer than seven characters
datetime_fromisoformat(s) ==
    IF Len(s) < 7 THEN Went(ErrIsoformat, NoDateTime)
    ELSE Timed(s, find_isoformat_datetime_separator(s),
               parse_isoformat_date(s, find_isoformat_datetime_separator(s)))

\* the strings datetime.fromisoformat returns a datetime for
IsTimestamp(s) == datetime_fromisoformat(s).err = NoError

TimestampValue(s) == datetime_fromisoformat(s).value

(***************************************************************************)
(* Interval                                                                *)
(***************************************************************************)
ErrNoSlash == Raise("ValueError", "Interval must contain a slash", <<>>, "", 0, FALSE)

ErrUnpack == Raise("ValueError", "too many values to unpack", <<>>, "", 0, FALSE)

ErrTwoDurations == Raise("ValueError", "Interval cannot have two durations", <<>>, "", 0, FALSE)

ErrTakesTwo == Raise("ValueError", "Interval takes at least two of start, duration and end", <<>>, "", 0, FALSE)

ErrNoMatch == Raise("ValueError", "Start, duration and end do not match up", <<>>, "", 0, FALSE)

ErrNoMinus == Raise("TypeError", "unsupported operand type(s) for -: 'datetime.datetime' and 'Duration'",
                    <<>>, "", 0, FALSE)

ErrNaiveAware == Raise("TypeError", "can't subtract offset-naive and offset-aware datetimes",
                       <<>>, "", 0, FALSE)

\* Duration.fromisoformat raised: ValueError("could not parse  duration ...")
ErrDuration(outcome) == Raise(outcome.raised, "could not parse  duration", outcome.input, "", 0, FALSE)

Slashes(s) == {i \in 1..Len(s) : s[i] = "/"}

\* interval.split("/"), for a string with one slash
Left(s) == SubSeq(s, 1, (CHOOSE i \in Slashes(s) : TRUE) - 1)

Right(s) == SubSeq(s, (CHOOSE i \in Slashes(s) : TRUE) + 1, Len(s))

\* the checks before the halves are parsed
SplitError(s) ==
    IF Slashes(s) = {} THEN ErrNoSlash
    ELSE IF Cardinality(Slashes(s)) > 1 THEN ErrUnpack
    ELSE IF StartsWithP(Left(s)) /\ StartsWithP(Right(s)) THEN ErrTwoDurations
    ELSE NoError

\* a duration half and a timestamp half: the duration is parsed first
Mixed(outcome, went, triple) ==
    IF outcome.raised # "none" THEN Went(ErrDuration(outcome), Nothing)
    ELSE IF went.err # NoError THEN Went(went.err, Nothing)
    ELSE Went(NoError, triple)

DurationEnd(outcome, went) ==
    Mixed(outcome, went, Triple(Absent(NoDateTime), Some(went.value), Some(outcome.value)))

StartDuration(went, outcome) ==
    Mixed(outcome, went, Triple(Some(went.value), Absent(NoDateTime), Some(outcome.value)))

StartEnd(from, to) ==
    IF from.err # NoError THEN Went(from.err, Nothing)
    ELSE IF to.err # NoError THEN Went(to.err, Nothing)
    ELSE Went(NoError, Triple(Some(from.value), Some(to.value), Absent(Duration(NoKwargs))))

\* the arguments Interval.fromisoformat passes to cls(...)
Halves(left, right) ==
    IF StartsWithP(left) THEN DurationEnd(fromisoformat(left), datetime_fromisoformat(right))
    ELSE IF StartsWithP(right) THEN StartDuration(datetime_fromisoformat(left), fromisoformat(right))
    ELSE StartEnd(datetime_fromisoformat(left), datetime_fromisoformat(right))

\* the branches of Interval.__init__: the exception raised, and the
\* attributes of self assigned by then
FromStartEnd(start, end) ==
    IF IsAware(start) # IsAware(end)
    THEN Went(ErrNaiveAware, Triple(Some(start), Some(end), Absent(Duration(NoKwargs))))
    ELSE Went(NoError, Triple(Some(start), Some(end), Some(from_timedelta(Minus(end, start)))))

FromEndDuration(end, span) ==
    Went(ErrNoMinus, Triple(Absent(NoDateTime), Some(end), Some(span)))

FromStartDuration(start, span, went) ==
    IF went.err # NoError THEN Went(went.err, Triple(Some(start), Absent(NoDateTime), Some(span)))
    ELSE Went(NoError, Triple(Some(start), Some(went.value), Some(span)))

Assigned(args) ==
    IF args.start.some /\ ~args.duration.some /\ args.end.some
    THEN FromStartEnd(args.start.value, args.end.value)
    ELSE IF ~args.start.some /\ args.duration.some /\ args.end.some
    THEN FromEndDuration(args.end.value, args.duration.value)
    ELSE IF args.start.some /\ args.duration.some /\ ~args.end.some
    THEN FromStartDuration(args.start.value, args.duration.value,
                           radd(args.duration.value, args.start.value))
    ELSE IF args.start.some /\ args.duration.some /\ args.end.some
    THEN Went(NoError, args)
    ELSE Went(ErrTakesTwo, Nothing)

Consistent_unchecked(went, end) == NoError

\* if self.start + self.duration != self.end
Consistent(went, end) ==
    IF went.err # NoError THEN went.err
    ELSE IF ~SameTime(went.value, end) THEN ErrNoMatch
    ELSE NoError

(***************************************************************************)
(* The arguments of Interval.fromisoformat and of Interval(...)             *)
(***************************************************************************)
\* the basic format, a time without seconds, a fraction, offsets, a week
\* date, and a month out of range
OtherShapes ==
    {<<"2", "0", "0", "0", "0", "1", "0", "2">>,
     <<"2", "0", "0", "0", "-", "0", "1", "-", "0", "2", "T", "1", "2", ":", "0", "0">>,
     <<"2", "0", "0", "0", "-", "0", "1", "-", "0", "2", "T", "1", "2", ":", "0", "0", ":", "0", "0", ".", "5">>,
     <<"2", "0", "0", "0", "-", "0", "1", "-", "0", "2", "T", "0", "0", ":", "0", "0", ":", "0", "0", "+", "0", "0", ":", "0", "0">>,
     <<"2", "0", "0", "0", "-", "0", "1", "-", "0", "2", "T", "0", "0", ":", "0", "0", ":", "0", "0", "-", "0", "5", ":", "0", "0">>,
     <<"2", "0", "0", "0", "-", "W", "0", "1", "-", "1">>,
     <<"2", "0", "0", "0", "-", "1", "3", "-", "0", "1">>}

TimestampTexts ==
    {<<"2", "0", "0", "0", "-", "0", "1", "-", "0", "1">>,
     <<"2", "0", "0", "0", "-", "0", "1", "-", "0", "2">>,
     <<"2", "0", "0", "0", "-", "0", "1", "-", "3", "1">>,
     <<"2", "0", "0", "0", "-", "0", "3", "-", "0", "1">>,
     <<"2", "0", "0", "0", "-", "0", "2", "-", "3", "0">>,
     <<"2", "0", "0", "0", "-", "0", "1", "-", "0", "1", "T", "1", "2", ":", "0", "0", ":", "0", "0">>,
     <<"2", "0", "0", "0", "-", "0", "1", "-", "0", "2", "T", "1", "2", ":", "0", "0", ":", "0", "0">>,
     <<"2", "0", "0", "0", "-", "0", "1", "-", "0", "2", "T", "0", "0", ":", "0", "0", ":", "0", "0", "Z">>,
     <<"2", "0", "0", "0", "-", "0", "1", "-", "0", "1", "T", "2", "4", ":", "0", "0", ":", "0", "0">>,
     <<"x">>, <<>>}
    \cup OtherShapes

DurationTexts ==
    {<<"P", "1", "D">>, <<"P", "1", "M">>, <<"P", "T", "2", "4", "H">>,
     <<"P", "0", ".", "5", "M">>, <<"P", "1", "X">>, <<"P", "1", "D", "T">>, <<"P">>}

\* no slash, or more than one
UnsplitTexts ==
    {<<"P", "1", "D">>, <<"2", "0", "0", "0", "-", "0", "1", "-", "0", "1">>,
     <<"2", "0", "0", "0", "-", "0", "1", "-", "0", "1", "/", "P", "1", "D", "/", "P", "1", "D">>,
     <<"2", "0", "0", "0", "-", "0", "1", "-", "0", "1", "/", "2", "0", "0", "0", "-", "0", "1", "-", "0", "2", "/", "P", "1", "D">>,
     <<"/">>, <<"/", "/">>}

HalfTexts == TimestampTexts \cup DurationTexts

IntervalTexts == Cat(HalfTexts, Cat({<<"/">>}, HalfTexts)) \cup UnsplitTexts

At(ymd, sec, us) == DateTime(ymd[1], ymd[2], ymd[3], sec, us, "naive", 0)

Noon == 12 * 3600

StartTimes ==
    {At(<<2000, 1, 1>>, 0, 0), At(<<2000, 1, 2>>, 0, 0), At(<<2000, 1, 31>>, 0, 0),
     At(<<2000, 1, 1>>, 5, 7),
     localize(At(<<2020, 3, 7>>, Noon, 0), Zone), localize(At(<<2020, 3, 7>>, 2 * 3600, 0), Zone),
     [At(<<2000, 1, 1>>, 0, 0) EXCEPT !.zone = "UTC"]}

EndTimes ==
    {At(<<2000, 1, 1>>, 0, 0), At(<<2000, 1, 2>>, 0, 0), At(<<2000, 1, 3>>, 0, 0),
     At(<<2000, 3, 1>>, 0, 0), At(<<2000, 1, 1>>, 10, 14),
     localize(At(<<2020, 3, 8>>, Noon, 0), Zone), localize(At(<<2020, 3, 9>>, Noon, 0), Zone),
     localize(At(<<2020, 3, 8>>, 3 * 3600, 0), Zone),
     [At(<<2000, 1, 2>>, 0, 0) EXCEPT !.zone = "UTC"]}

Periods ==
    {Duration(NoKwargs), Duration([days |-> QInt(1)]), Duration([days |-> QInt(2)]),
     Duration([hours |-> QInt(24)]), Duration([hours |-> QInt(23)]),
     Duration([months |-> QInt(1)]), Duration([months |-> Dec(0, 5000)]),
     Duration([days |-> QInt(1), hours |-> QInt(23)]),
     Duration([weeks |-> QInt(1), seconds |-> Dec(1, 5)])}

Maybe(values, default) == {Absent(default)} \cup {Some(v) : v \in values}

Arguments ==
    {Triple(from, to, span) : from \in Maybe(StartTimes, NoDateTime), to \in Maybe(EndTimes, NoDateTime),
                              span \in Maybe(Periods, Duration(NoKwargs))}

(***************************************************************************)
(* The interval machine: Interval.fromisoformat(interval), or               *)
(* Interval(start, end, duration), then the assignments of __init__ and    *)
(* its final check                                                         *)
(***************************************************************************)
InitInterval ==
    /\ ParseIdle
    /\ AddIdle
    /\ OrderIdle
    /\ \/ interval \in IntervalTexts /\ given = Nothing /\ ipc = "fromisoformat"
       \/ interval = <<>> /\ given \in Arguments /\ ipc = "init"
    /\ this = Nothing
    /\ refusal = NoError

Refused(err) ==
    /\ refusal' = err
    /\ ipc' = "raised"
    /\ UNCHANGED <<interval, given, this>>

\* the slash, and the two durations
SplitInterval ==
    /\ ipc = "fromisoformat"
    /\ IF SplitError(interval) # NoError
       THEN Refused(SplitError(interval))
       ELSE ipc' = "halves" /\ UNCHANGED <<interval, given, this, refusal>>
    /\ UNCHANGED <<parseVars, addVars, orderVars>>

\* Duration.fromisoformat and datetime.fromisoformat of the halves
ParseHalves ==
    /\ ipc = "halves"
    /\ IF Halves(Left(interval), Right(interval)).err # NoError
       THEN Refused(Halves(Left(interval), Right(interval)).err)
       ELSE /\ given' = Halves(Left(interval), Right(interval)).value
            /\ ipc' = "init"
            /\ UNCHANGED <<interval, this, refusal>>
    /\ UNCHANGED <<parseVars, addVars, orderVars>>

\* the branch of __init__ for the arguments given
Assign ==
    /\ ipc = "init"
    /\ this' = Assigned(given).value
    /\ IF Assigned(given).err # NoError
       THEN /\ refusal' = Assigned(given).err
            /\ ipc' = "raised"
       ELSE /\ ipc' = "check"
            /\ UNCHANGED refusal
    /\ UNCHANGED <<interval, given>>
    /\ UNCHANGED <<parseVars, addVars, orderVars>>

\* self.start + self.duration != self.end
CheckSum ==
    /\ ipc = "check"
    /\ IF Consistent(radd(this.duration.value, this.start.value), this.end.value) # NoError
       THEN Refused(Consistent(radd(this.duration.value, this.start.value), this.end.value))
       ELSE ipc' = "constructed" /\ UNCHANGED <<interval, given, this, refusal>>
    /\ UNCHANGED <<parseVars, addVars, orderVars>>

NextInterval ==
    \/ SplitInterval
    \/ ParseHalves
    \/ Assign
    \/ CheckSum

SpecInterval == InitInterval /\ [][NextInterval]_vars

(***************************************************************************)
(* What the claims speak of                                                *)
(***************************************************************************)
Returned == pc \in {"returned", "formatted", "reparsed"}

Accepted == Returned /\ parsed.raised = "none"

DesignatorCall == StartsWithP(text) /\ IsDesignatorForm(text)

FixedCall == StartsWithP(text) /\ ~IsDesignatorForm(text)

NotDecimal(c) == c \notin DecimalCharacters

\* the characters of a designator-form string that are not part of a value
Letters(s) == SelectSeq(s, NotDecimal)

DateOrder == <<"Y", "M", "W", "D">>

TimeOrder == <<"H", "M", "S">>

\* ls picks some of order, each at most once, in order's order
RECURSIVE Increasing(_, _)
Increasing(ls, order) ==
    IF ls = <<>> THEN TRUE
    ELSE IF order = <<>> THEN FALSE
    ELSE IF Head(ls) = Head(order) THEN Increasing(Tail(ls), Tail(order))
    ELSE Increasing(ls, Tail(order))

\* date designators in order before the first "T", time designators in
\* order after it, nothing else
WellOrdered(ls) ==
    /\ Increasing(SubSeq(ls, 1, FirstT(ls) - 1), DateOrder)
    /\ Increasing(SubSeq(ls, FirstT(ls) + 1, Len(ls)), TimeOrder)

\* the first letter that breaks the order
Offender(ls) == ls[CHOOSE k \in 1..Len(ls) :
                      /\ ~WellOrdered(SubSeq(ls, 1, k))
                      /\ WellOrdered(SubSeq(ls, 1, k - 1))]

\* the designators of order that ls has consumed or passed over
RECURSIVE Gone(_, _)
Gone(ls, order) ==
    IF order = <<>> \/ ls = <<>> THEN {}
    ELSE IF \E i \in 1..Len(ls) : ls[i] = order[Len(order)]
    THEN {order[i] : i \in 1..Len(order)}
    ELSE Gone(ls, SubSeq(order, 1, Len(order) - 1))

Designators(ctx) == {ctx[i][1] : i \in 1..Len(ctx)}

Scanned == Letters(SubSeq(text, 2, pos + 1))

\* the stepwise sweep and the parser as a function agree
SweepAgrees == Returned => parsed = fromisoformat(text)

\* C1 (as stated): for every accepted string s, with d = fromisoformat(s),
\* fromisoformat(d.isoformat()) succeeds and equals d in all seven fields,
\* fractional parts included.
C1_RoundTrip ==
    pc = "reparsed" => reparsed.raised = "none" /\ DurationEq(reparsed.value, parsed.value)

\* C2 (as stated): a designator-form string is accepted only if its letters
\* are in order, none twice, "T" at most once; a designator consumed or
\* skipped is never matched again; and any violation fails with
\* "unexpected character".
C2_Original ==
    /\ (Returned /\ DesignatorCall /\ parsed.raised = "none") => WellOrdered(Letters(Tail(text)))
    /\ (Returned /\ DesignatorCall /\ ~WellOrdered(Letters(Tail(text))))
          => parsed.raised = "ValueError" /\ parsed.reason.kind = "unexpected character"

\* C2 (amended): a designator-form string is accepted only if its letters
\* are in order (Y, M, W, D before "T"; H, M, S after it), none twice, "T"
\* at most once; during the sweep the designators left to match are exactly
\* those after the last one consumed; a violation always fails, with
\* "unexpected character" naming the first letter out of order unless the
\* scan met a malformed value or a number directly before "T" first.
C2_DesignatorOrder ==
    /\ (Returned /\ DesignatorCall /\ parsed.raised = "none") => WellOrdered(Letters(Tail(text)))
    /\ (Returned /\ DesignatorCall /\ ~WellOrdered(Letters(Tail(text))))
          => /\ parsed.raised = "ValueError"
             /\ \/ parsed.reason = ErrUnexpected(Offender(Letters(Tail(text))))
                \/ parsed.reason.kind \in {"unable to parse as a positive decimal",
                                           "expected a unit designator after"}
    /\ pc = "sweep"
          => /\ WellOrdered(Scanned)
             /\ Designators(sweep.date)
                  = Designators(date_context) \ Gone(SubSeq(Scanned, 1, FirstT(Scanned) - 1), DateOrder)
             /\ Designators(sweep.time)
                  = Designators(time_context) \ Gone(SubSeq(Scanned, FirstT(Scanned) + 1, Len(Scanned)), TimeOrder)

\* a duplicated or misplaced designator was rejected as an unexpected character
C2_Witness ==
    /\ Returned /\ DesignatorCall
    /\ Len(Letters(Tail(text))) >= 2
    /\ ~WellOrdered(Letters(Tail(text)))
    /\ parsed.reason = ErrUnexpected(Offender(Letters(Tail(text))))
    /\ Offender(Letters(Tail(text))) \in {"Y", "M", "D", "H", "S", "T"}

NotT(c) == c # "T"

\* C3: a week measurement must be the only measurement of a designator-form
\* string: an accepted string that holds "W" holds no other unit designator.
C3_WeekAlone ==
    (Accepted /\ DesignatorCall /\ \E i \in 1..Len(Letters(Tail(text))) : Letters(Tail(text))[i] = "W")
        => SelectSeq(Letters(Tail(text)), NotT) = <<"W">>

\* the defects C4 lists: empty, a leading separator, a sign, an exponent
\* marker, two separators
Malformed(v) ==
    \/ v = <<>>
    \/ v # <<>> /\ v[1] \in {".", ","}
    \/ \E i \in 1..Len(v) : v[i] \in {"+", "-", "e", "E"}
    \/ \E i, j \in 1..Len(v) : i < j /\ v[i] \in {".", ","} /\ v[j] \in {".", ","}

\* C4 (as stated): whichever parser produced it, a raw value that is
\* empty, starts with a separator, contains a sign or an exponent marker,
\* or has two separators makes Duration.fromisoformat fail.
C4_MalformedRejected ==
    Accepted => \A i \in 1..Len(parsed.comps) : ~Malformed(parsed.comps[i].value)

\* digits, optionally a separator and more digits
PlainDecimal(v) ==
    /\ DigitRun(v, 1) >= 1
    /\ \/ DigitRun(v, 1) = Len(v)
       \/ /\ v[DigitRun(v, 1) + 1] \in {".", ","}
          /\ DigitRun(v, 1) + 1 + DigitRun(v, DigitRun(v, 1) + 2) = Len(v)

IntPart(v) == NatOf(SubSeq(v, 1, DigitRun(v, 1)))

FracNonZero(v) == \E i \in (DigitRun(v, 1) + 2)..Len(v) : v[i] # "0"

DateSegment(s) == SubSeq(Tail(s), 1, FirstT(Tail(s)) - 1)

TimeSegment(s) == SubSeq(Tail(s), FirstT(Tail(s)) + 1, Len(Tail(s)))

\* the components of a fixed-width string, each marked date or time
Marked(comps, is_date) ==
    [i \in 1..Len(comps) |->
        [value |-> comps[i].value, unit |-> comps[i].unit, is_date |-> is_date,
         with_months |-> \E j \in 1..Len(comps) : comps[j].unit = "months"]]

Entries(s) ==
    (IF DateSegment(s) # <<>> THEN Marked(from_date(DateSegment(s)).comps, TRUE) ELSE <<>>)
    \o (IF TimeSegment(s) # <<>> THEN Marked(from_time(TimeSegment(s)).comps, FALSE) ELSE <<>>)

ShapesMatch(s) ==
    /\ DateSegment(s) # <<>> => from_date(DateSegment(s)).err = NoError
    /\ TimeSegment(s) # <<>> => from_time(TimeSegment(s)).err = NoError

\* the limits as C5 states them (0: none)
ClaimedLimit(e) ==
    CASE e.unit = "months"  -> 12
      [] e.unit = "days"    -> IF e.with_months THEN 31 ELSE 366
      [] e.unit = "hours"   -> 24
      [] e.unit = "minutes" -> 60
      [] e.unit = "seconds" -> 60
      [] OTHER              -> 0

OutOfRange(e) ==
    /\ ClaimedLimit(e) # 0
    /\ IF e.is_date
       THEN IntPart(e.value) > ClaimedLimit(e)
            \/ (IntPart(e.value) = ClaimedLimit(e) /\ FracNonZero(e.value))
       ELSE IntPart(e.value) >= ClaimedLimit(e)

FirstOutOfRange(es) ==
    es[CHOOSE k \in 1..Len(es) : OutOfRange(es[k]) /\ \A j \in 1..(k - 1) : ~OutOfRange(es[j])]

\* C5: in fixed-width form a date component is rejected iff its value
\* is greater than its limit, a time component iff its value is greater
\* than or equal to its limit, and the failure names the unit, the raw
\* value and the bound, closed for a date and half-open for a time component.
C5_RangeExact ==
    (Returned /\ FixedCall /\ ShapesMatch(text)
       /\ \A i \in 1..Len(Entries(text)) : PlainDecimal(Entries(text)[i].value))
    => IF \E i \in 1..Len(Entries(text)) : OutOfRange(Entries(text)[i])
       THEN /\ parsed.raised = "ValueError"
            /\ parsed.reason = ErrRange(FirstOutOfRange(Entries(text)).unit,
                                        FirstOutOfRange(Entries(text)).value,
                                        ClaimedLimit(FirstOutOfRange(Entries(text))),
                                        FirstOutOfRange(Entries(text)).is_date)
       ELSE parsed.raised = "none"

\* a time component exactly at its limit was rejected
C5_Witness ==
    /\ Returned /\ FixedCall /\ ShapesMatch(text)
    /\ \A i \in 1..Len(Entries(text)) : PlainDecimal(Entries(text)[i].value)
    /\ parsed.reason.kind = "exceeds range"
    /\ ~parsed.reason.closed
    /\ IntPart(parsed.reason.value) = parsed.reason.limit

Reasons ==
    {"durations must begin with the character 'P'", "no measurements found",
     "expected a unit designator after", "unexpected character",
     "unable to parse as a positive decimal", "exceeds range",
     "unable to parse into date components", "unable to parse into time components"}

\* C6: for every input string, Duration.fromisoformat returns a Duration
\* or raises ValueError with the input text and the reason in its message;
\* no AssertionError or IndexError leaves the call.
C6_OnlyValueError ==
    Returned =>
        /\ parsed.raised \in {"none", "ValueError"}
        /\ parsed.raised = "ValueError" => parsed.input = text /\ parsed.reason.kind \in Reasons
        /\ ~StartsWithP(text) =>
              /\ parsed.raised = "ValueError"
              /\ parsed.reason.kind = "durations must begin with the character 'P'"
        /\ text \in {<<"P">>, <<"P", "T">>} =>
              /\ parsed.raised = "ValueError"
              /\ parsed.reason.kind = "no measurements found"

\* the empty string was rejected by the prefix assertion, as a ValueError
C6_Witness ==
    /\ Returned
    /\ text = <<>>
    /\ parsed.raised = "ValueError"
    /\ parsed.reason.exc = "AssertionError"

(***************************************************************************)
(* What the claims about addition speak of                                 *)
(***************************************************************************)
Start == other.value

AddingToDatetime == other.type = "datetime"

Whole(x) == ~IsFractional(x)

\* z = old_month - 1 + months, for integral months
Z == Start.m - 1 + WholePart(duration["months"])

TargetYear == Start.y + Round(duration["years"]) + (Z \div 12)

TargetMonth == (Z % 12) + 1

TargetExists == TargetYear \in MINYEAR..MAXYEAR /\ Start.d <= DaysInMonth(TargetYear, TargetMonth)

\* the day offset: days + 7 x weeks, for whole days and weeks
DayOffset == WholePart(duration["days"]) + 7 * WholePart(duration["weeks"])

WholeDays == Whole(duration["days"]) /\ Whole(duration["weeks"])

\* x in microseconds, to the nearest
Microseconds(x) == Small(Millionths(x))

\* x is the float of a number of microseconds
OnMicroseconds(x) ==
    x = DoubleOf(<<Microseconds(x) \div Million, (Microseconds(x) % Million) * (Scale \div Million)>>)

\* the seconds field is a whole number of microseconds
WholeClock ==
    /\ Whole(duration["hours"])
    /\ Whole(duration["minutes"])
    /\ OnMicroseconds(duration["seconds"])

\* hours, minutes and seconds as elapsed time
ClockOffset ==
    Normalised(0,
               3600 * WholePart(duration["hours"]) + 60 * WholePart(duration["minutes"]),
               Microseconds(duration["seconds"]))

\* the start's wall-clock time on the target year, month and day, the day offset later
TargetStamp == TimeDelta(ToOrdinal(TargetYear, TargetMonth, Start.d) + DayOffset, Start.sec, Start.us)

Only(units) == \A u \in UnitSet \ units : duration[u] = Zero

Midnight(ymd) == Naive(ymd, 0)

P1M1D == Duration([months |-> QInt(1), days |-> QInt(1)])

P1Y1M == Duration([years |-> QInt(1), months |-> QInt(1)])

Example(from, period, to) ==
    (AddingToDatetime /\ Start = Midnight(from) /\ duration = period /\ apc \in {"returned", "raised"})
        => (apc = "returned" /\ end_time = Midnight(to))

\* C7: a Duration with integral months is added to a timestamp in the order
\* year, month, days (+ 7 x weeks), then hours/minutes/seconds, each step on
\* the result of the one before: the year becomes old_year + round(years) +
\* floor(z / 12) and the month (z mod 12) + 1, with z = old_month - 1 +
\* months, before any day offset is added; the day offset is then counted
\* from that date, and the time offset from the date so reached; so
\* 2000-02-29 + P1M1D = 2000-03-30, 1999-01-29 + P1Y1M = 2000-02-29 and
\* 2000-04-30 + P1M1D = 2000-05-31.
C7_ComponentOrder ==
    AddingToDatetime =>
        /\ apc = "year" => end_time = [Start EXCEPT !.y = TargetYear]
        /\ apc = "month" => end_time = [Start EXCEPT !.y = TargetYear, !.m = TargetMonth]
        /\ (apc = "days" /\ WholeDays) => Stamp(end_time) = TargetStamp
        /\ (apc = "returned" /\ Start.zone = "naive" /\ WholeDays /\ WholeClock)
               => Stamp(end_time) = StampAdd(TargetStamp, ClockOffset)
        /\ Example(<<2000, 2, 29>>, P1M1D, <<2000, 3, 30>>)
        /\ Example(<<1999, 1, 29>>, P1Y1M, <<2000, 2, 29>>)
        /\ Example(<<2000, 4, 30>>, P1M1D, <<2000, 5, 31>>)

\* 2000-02-29 + P1M1D has returned 2000-03-30
C7_Witness ==
    /\ AddingToDatetime
    /\ apc = "returned"
    /\ Start = Midnight(<<2000, 2, 29>>)
    /\ duration = P1M1D
    /\ end_time = Midnight(<<2000, 3, 30>>)

\* C8: adding a Duration to a timestamp fails exactly when the months field
\* is non-integral (reason 'fractional months are not supported') or when
\* the resulting year and month with the original day of month is not an
\* existing date (day out of range); otherwise the addition succeeds.
C8_FailsExactly ==
    (AddingToDatetime /\ apc \in {"returned", "raised"}) =>
        /\ apc = "raised" <=> (~Whole(duration["months"]) \/ ~TargetExists)
        /\ (apc = "raised" /\ ~Whole(duration["months"])) => failure = ErrFractionalMonths
        /\ (apc = "raised" /\ Whole(duration["months"])) => failure = ErrDayRange

Aware == AddingToDatetime /\ Start.zone # "naive"

\* the wall-clock time of the target is a time of the zone on that day
TargetOnTheClock == Exists(TargetStamp, StandardOffset) \/ Exists(TargetStamp, DaylightOffset)

OneHour == TimeDelta(0, 3600, 0)

OneDay == TimeDelta(1, 0, 0)

\* a spring-forward transition lies between the start and the result
SpringForward == Start.off = StandardOffset /\ end_time.off = DaylightOffset

FallBack == Start.off = DaylightOffset /\ end_time.off = StandardOffset

\* hours, minutes and seconds are elapsed time in UTC; 23 hours across a
\* spring-forward transition, and 25 hours across a fall-back transition,
\* are one calendar day
ElapsedInUtc ==
    /\ (Only({"hours", "minutes", "seconds"}) /\ WholeClock)
           => ToUtc(end_time) = StampAdd(ToUtc(Start), ClockOffset)
    /\ (duration = Duration([hours |-> QInt(23)]) /\ SpringForward)
           => Stamp(end_time) = StampAdd(Stamp(Start), OneDay)
    /\ (duration = Duration([hours |-> QInt(25)]) /\ FallBack)
           => Stamp(end_time) = StampAdd(Stamp(Start), OneDay)

\* C9 as stated: on an aware timestamp the days and weeks are calendar days
\* in local time, so that start + days is always the same wall-clock time
\* that many calendar days later, whether or not a transition lies in
\* between; hours, minutes and seconds are elapsed time in UTC.
C9_Original ==
    (Aware /\ apc = "returned") =>
        /\ (Only({"days", "weeks"}) /\ WholeDays) => Stamp(end_time) = TargetStamp
        /\ ElapsedInUtc

\* C9: on an aware timestamp the days and weeks are calendar days in local
\* time: start + days is the same wall-clock time that many calendar days
\* later, whether or not a transition lies in between, provided the zone has
\* that wall-clock time on that day; a wall-clock time skipped by a
\* spring-forward transition gives the time one hour later, in daylight
\* time.  Hours, minutes and seconds are elapsed time in UTC.
C9_CalendarDays ==
    (Aware /\ apc = "returned") =>
        /\ (Only({"days", "weeks"}) /\ WholeDays /\ TargetOnTheClock)
               => Stamp(end_time) = TargetStamp
        /\ (Only({"days", "weeks"}) /\ WholeDays /\ ~TargetOnTheClock)
               => (Stamp(end_time) = StampAdd(TargetStamp, OneHour) /\ end_time.off = DaylightOffset)
        /\ ElapsedInUtc

\* one day added across a spring-forward transition: the same wall-clock time
C9_Witness ==
    /\ Aware
    /\ apc = "returned"
    /\ duration = Duration([days |-> QInt(1)])
    /\ SpringForward
    /\ Stamp(end_time) = StampAdd(Stamp(Start), OneDay)

\* C10: a + b is field-wise over all seven fields, and a + t for an elapsed
\* time span t adds t's days and seconds to a's days and seconds and keeps
\* a's years, months, weeks, hours and minutes.
C10_FieldwiseSum ==
    apc = "returned" =>
        /\ other.type = "Duration" => \A u \in UnitSet : sum[u] = QAdd(duration[u], other.value[u])
        /\ other.type = "timedelta" =>
               /\ sum["days"] = QAdd(duration["days"], QInt(other.value.days))
               /\ sum["seconds"] = QAdd(duration["seconds"], QInt(other.value.seconds))
               /\ \A u \in UnitSet \ {"days", "seconds"} : sum[u] = duration[u]

(***************************************************************************)
(* What the claims about Interval speak of                                 *)
(***************************************************************************)
\* Interval(...) or Interval.fromisoformat(...) has returned or raised
Settled == ipc \in {"constructed", "raised"}

\* the call was Interval(start, end, duration)
Direct == interval = <<>> /\ ipc # "idle"

HowMany(args) ==
    (IF args.start.some THEN 1 ELSE 0) + (IF args.end.some THEN 1 ELSE 0)
    + (IF args.duration.some THEN 1 ELSE 0)

\* start + duration of a triple
SumOf(args) == radd(args.duration.value, args.start.value)

\* start + duration == end
AddsUp(args) == SumOf(args).err = NoError /\ SameTime(SumOf(args).value, args.end.value)

\* C11: every Interval that is constructed, by whichever path, has start,
\* end and duration with start + duration == end; three arguments with
\* start + duration != end are refused with the consistency error, and
\* fewer than two arguments are refused.
C11_IntervalInvariant ==
    /\ ipc = "constructed" => (HowMany(this) = 3 /\ AddsUp(this))
    /\ (Settled /\ Direct /\ HowMany(given) = 3 /\ SumOf(given).err = NoError /\ ~AddsUp(given))
           => (ipc = "raised" /\ refusal = ErrNoMatch)
    /\ (Settled /\ Direct /\ HowMany(given) < 2) => (ipc = "raised" /\ refusal = ErrTakesTwo)

\* an Interval constructed from a start and an end a day apart
C11_Witness ==
    /\ ipc = "constructed"
    /\ Direct
    /\ given.start.some /\ given.end.some /\ ~given.duration.some
    /\ this.duration.value = Duration([days |-> QInt(1)])
    /\ AddsUp(this)

OneSlash == Cardinality(Slashes(interval)) = 1

\* the text is duration/end with a valid duration and a valid timestamp
DurationEndForm ==
    /\ OneSlash
    /\ StartsWithP(Left(interval)) /\ fromisoformat(Left(interval)).raised = "none"
    /\ IsTimestamp(Right(interval))

\* C12: Interval.fromisoformat accepts start/end, start/duration and
\* duration/end; for duration/end with a valid duration and timestamp it
\* returns an Interval with that end, that duration and the start derived
\* from them; two durations, and a string without '/', are refused with a
\* ValueError.
C12_ThreeForms ==
    (Settled /\ ~Direct) =>
        /\ DurationEndForm =>
               /\ ipc = "constructed"
               /\ this.end.value = TimestampValue(Right(interval))
               /\ this.duration.value = fromisoformat(Left(interval)).value
               /\ AddsUp(this)
        /\ Slashes(interval) = {} => (ipc = "raised" /\ refusal.exc = "ValueError")
        /\ (OneSlash /\ StartsWithP(Left(interval)) /\ StartsWithP(Right(interval)))
               => (ipc = "raised" /\ refusal.exc = "ValueError")

NonNegative(d) == \A u \in UnitSet : ~QLess(d[u], Zero)

\* C14: the duration an Interval derives from a start and an end has all
\* seven fields >= 0 whenever the construction succeeds, as has every
\* Duration parsed from a string.
C14_NonNegative ==
    ipc = "constructed" => NonNegative(this.duration.value)

(***************************************************************************)
(* What the claim about Duration.isoformat speaks of                       *)
(***************************************************************************)
Formatted == pc \in {"formatted", "reparsed"}

Pick(d, unit, designator) == IF d[unit] # Zero THEN <<designator>> ELSE <<>>

TimePart(d) == Pick(d, "hours", "H") \o Pick(d, "minutes", "M") \o Pick(d, "seconds", "S")

\* the letters of the text of d, as the claim gives them
ExpectedLetters(d) ==
    <<"P">> \o Pick(d, "years", "Y") \o Pick(d, "months", "M") \o Pick(d, "weeks", "W")
            \o Pick(d, "days", "D") \o (IF TimePart(d) # <<>> THEN <<"T">> \o TimePart(d) ELSE <<>>)

AfterT(s, i) == \E j \in 1..(i - 1) : s[j] = "T"

UnitAt(s, i) ==
    CASE s[i] = "Y" -> "years"
      [] s[i] = "M" -> IF AfterT(s, i) THEN "minutes" ELSE "months"
      [] s[i] = "W" -> "weeks"
      [] s[i] = "D" -> "days"
      [] s[i] = "H" -> "hours"
      [] s[i] = "S" -> "seconds"
      [] OTHER -> "none"

LetterBefore(s, i) == CHOOSE j \in 1..(i - 1) : NotDecimal(s[j]) /\ \A k \in (j + 1)..(i - 1) : ~NotDecimal(s[k])

\* the value in front of the designator at position i
ValueAt(s, i) == SubSeq(s, LetterBefore(s, i) + 1, i - 1)

\* digits, or digits, a point and one to FormatPrecision digits not ending in 0
Rendered(v) ==
    /\ DigitRun(v, 1) >= 1
    /\ \/ DigitRun(v, 1) = Len(v)
       \/ /\ v[DigitRun(v, 1) + 1] = "."
          /\ Len(v) - DigitRun(v, 1) - 1 \in 1..FormatPrecision
          /\ DigitRun(v, DigitRun(v, 1) + 2) = Len(v) - DigitRun(v, 1) - 1
          /\ v[Len(v)] # "0"

Gap(x, y) == IF x >= y THEN x - y ELSE y - x

\* |a - b| of two natural numbers in digits
BigGap(a, b) == IF BigLess(Trim(a), Trim(b)) THEN BigSub(b, a, 0) ELSE BigSub(a, b, 0)

\* |x - number| * Scale * 2^k, for the decimal x and the float number
ScaledGap(x, number) ==
    BigGap(ShiftLeft(BigTimes(Big(x[1]), Scale, x[2]), number.k), BigTimes(number.n, Scale, 0))

\* the decimal x is the float number to the nearest 10^-FormatPrecision
Near(x, number) ==
    ~BigLess(ShiftLeft(Big(Scale), number.k),
             Trim(BigTimes(ScaledGap(x, number), 2 * (10 ^ FormatPrecision), 0)))

DesignatorsOf(s) == {i \in 1..Len(s) : NotDecimal(s[i]) /\ s[i] \notin {"P", "T"}}

\* C13: isoformat emits exactly P0D for the zero Duration; otherwise P, the
\* non-zero fields among years, months, weeks, days as value and Y, M, W,
\* D, then, only if one of hours, minutes, seconds is non-zero, T and the
\* non-zero fields among them as value and H, M, S; each value has at most
\* 6 decimals, no trailing zeros and no trailing point, and is the field to
\* the nearest millionth; zero fields never appear; P1Y6MT4H is the text
\* of Duration(years=1, months=6, hours=4).
C13_Format ==
    Formatted =>
        /\ ~Truthy(parsed.value) => formatted = <<"P", "0", "D">>
        /\ Truthy(parsed.value) =>
               /\ Letters(formatted) = ExpectedLetters(parsed.value)
               /\ formatted[Len(formatted)] \notin DecimalCharacters
               /\ \A i \in DesignatorsOf(formatted) :
                      /\ Rendered(ValueAt(formatted, i))
                      /\ Near(DecimalRead(ValueAt(formatted, i)), parsed.value[UnitAt(formatted, i)])
        /\ parsed.value = Duration([years |-> QInt(1), months |-> QInt(6), hours |-> QInt(4)])
               => formatted = <<"P", "1", "Y", "6", "M", "T", "4", "H">>

\* Duration(years=1, months=6, hours=4) has been formatted as P1Y6MT4H
C13_Witness ==
    /\ Formatted
    /\ parsed.value = Duration([years |-> QInt(1), months |-> QInt(6), hours |-> QInt(4)])
    /\ formatted = <<"P", "1", "Y", "6", "M", "T", "4", "H">>

(***************************************************************************)
(* What the claims about the end of the sweep and the time segment speak of *)
(***************************************************************************)
\* what follows the first "T" of a designator-form string
AfterFirstT(s) == SubSeq(Tail(s), FirstT(Tail(s)) + 1, Len(Tail(s)))

HasT(s) == \E i \in 2..Len(s) : s[i] = "T"

\* a "T" was consumed and no time measurement follows it
TimeEmpty(s) == HasT(s) /\ \A i \in 1..Len(AfterFirstT(s)) : AfterFirstT(s)[i] \notin {"H", "M", "S"}

NoMeasurement(s) == \A i \in 2..Len(s) : s[i] \notin {"Y", "M", "W", "D", "H", "S"}

\* the first "T" comes directly after a character of a value
NumberBeforeT(s) == HasT(s) /\ FirstT(Tail(s)) > 1 /\ Tail(s)[FirstT(Tail(s)) - 1] \in DecimalCharacters

\* C15: the sweep ends with two checks, that a measurement was yielded and
\* that a time context entered is not empty: a designator-form string is
\* rejected when its "T" is followed by no time measurement (PT, or date
\* measurements and a trailing T), when it holds no measurement, and when
\* its "T" comes directly after a number without a designator.
C15_TimeNotEmpty ==
    (Returned /\ DesignatorCall) =>
        /\ TimeEmpty(text) => parsed.raised = "ValueError"
        /\ NoMeasurement(text) => parsed.raised = "ValueError"
        /\ NumberBeforeT(text) => parsed.raised = "ValueError"

\* the call is on a time segment alone: PT and no designator at the end
TimeOnly == FixedCall /\ Len(text) > 2 /\ text[2] = "T"

Separator(segment) == IF Len(segment) >= 3 /\ segment[3] = ":" THEN <<":">> ELSE <<>>

\* the raw values put back together
Rejoined(comps, separator) ==
    comps[1].value \o separator \o comps[2].value \o separator \o comps[3].value

\* two digits or two other characters: the width is all a shape fixes
FractionOf9(segment, from) == from <= Len(segment) + 1 /\ Len(segment) - from + 1 <= 9

\* HH:MM:SS.fraction, HH:MM:SS, HHMMSS.fraction or HHMMSS, the fraction of up to 9 characters
FourShapes(segment) ==
    \/ Len(segment) = 8 /\ segment[3] = ":" /\ segment[6] = ":"
    \/ Len(segment) >= 9 /\ segment[3] = ":" /\ segment[6] = ":" /\ segment[9] = "."
           /\ FractionOf9(segment, 10)
    \/ Len(segment) = 6
    \/ Len(segment) >= 7 /\ segment[7] = "." /\ FractionOf9(segment, 8)

\* C16: the fixed-width time parser accepts a segment only if the whole
\* segment is one of the four shapes, with a fraction of up to 9 digits;
\* every character of an accepted segment belongs to one of the raw values
\* of hours, minutes and seconds, separators aside, so no fraction digit and
\* no trailing character is ignored; any other shape fails with "unable to
\* parse into time components".
C16_WholeSegment ==
    (Returned /\ TimeOnly) =>
        /\ parsed.raised = "none" =>
               /\ FourShapes(TimeSegment(text))
               /\ Len(parsed.comps) = 3
               /\ Rejoined(parsed.comps, Separator(TimeSegment(text))) = TimeSegment(text)
        /\ ~FourShapes(TimeSegment(text)) =>
               /\ parsed.raised = "ValueError"
               /\ parsed.reason.kind = "unable to parse into time components"

(***************************************************************************)
(* Comparison of Durations: __eq__ and __lt__                              *)
(***************************************************************************)
\* __eq__: every field equal
eq(self, rhs) == \A u \in UnitSet : self[u] = rhs[u]

\* __lt__: some field less
lt(self, rhs) == \E u \in UnitSet : QLess(self[u], rhs[u])

OrderDays == {QInt(0), QInt(1)}

OrderHours == {QInt(0), QInt(1)}

OrderSeconds == {QInt(0), Dec(0, 5000)}

\* the Durations compared
Ordered ==
    {Duration([days |-> d, hours |-> h, seconds |-> s]) :
        d \in OrderDays, h \in OrderHours, s \in OrderSeconds}

InitOrder ==
    /\ ParseIdle
    /\ AddIdle
    /\ IntervalIdle
    /\ first \in Ordered
    /\ second \in Ordered
    /\ third \in Ordered
    /\ opc = "call"
    /\ verdict = Verdict(FALSE, FALSE, FALSE, FALSE, FALSE)

\* first < second, second < first, first == second, second < third, first < third
Compare ==
    /\ opc = "call"
    /\ verdict' = Verdict(lt(first, second), lt(second, first), eq(first, second),
                          lt(second, third), lt(first, third))
    /\ opc' = "compared"
    /\ UNCHANGED <<first, second, third>>
    /\ UNCHANGED <<parseVars, addVars, intervalVars>>

NextOrder == Compare

SpecOrder == InitOrder /\ [][NextOrder]_vars

Compared == opc = "compared"

Count(flag) == IF flag THEN 1 ELSE 0

\* C17: the ordering of Durations is a strict order consistent with
\* equality: at most one of a < b, a == b, b < a holds, and a < b together
\* with b < c implies a < c.
C17_StrictOrder ==
    Compared =>
        /\ Count(verdict.lt) + Count(verdict.eq) + Count(verdict.back) <= 1
        /\ (verdict.lt /\ verdict.chain) => verdict.through

====
